---------------------------- MODULE Spec2Model ----------------------------
(* Verification model of the interactive-fiction exploration harness:      *)
(*   - the Context Evaluator  (evaluate_context),                          *)
(*   - State History          (the ChainMap of sparse context frames),     *)
(*   - the Checkpoint Manager (save_terp_state / _restore_terp_to_save_file)*)
(*   - the Search Engine      (make_moves) and the Progress Store,         *)
(*   - the Line Stream Reader (NonBlockingStreamReader),                   *)
(*   - the Process Driver     (commands, output, undo, restore, shutdown). *)
(*   - the progress file      (written in place, piece by piece),          *)
(*   - elapsed-time accounting of the three solvers across restarts,       *)
(*   - the map solver's search (find_path_from) and its USR2 request,      *)
(*   - the two-room scenario  (the search engine on a toy game),           *)
(*   - the graceful shutdown  (QUIT and its confirmations),                *)
(*   - single calls of the legality predicates and of the loaders,         *)
(*   - sparse storage of the frames against storage in full.               *)
(* Text is modelled as sequences of one-character strings, so that the     *)
(* substring, prefix and suffix tests of the code are computed, not        *)
(* assumed.                                                                *)
EXTENDS Integers, Sequences, FiniteSets, TLC

VARIABLES
    context_history,   \* State History: sequence of sparse frames, maps[0] is the LAST element
    save_files,        \* the save directory: checkpoint file id -> saved child state
    terp,              \* the child process: [trail, over]
    stack,             \* activations of make_moves, innermost last
    pc,                \* where the main thread is: call, loop, finally, return, raise, done, aborted
    progress_data,     \* in-memory Progress Store: strand key -> statistics
    progress_file,     \* the persisted progress file
    counters,          \* [dead_ends, successes, moves, maximum_walkthrough_length]
    solutions,         \* solution records written so far (successful_paths directory)
    problems,          \* problem types documented so far (logs directory)
    sent,              \* the lines written to the child's stdin by the last step
    attempted,         \* walkthroughs of the command attempts executed so far
    run,               \* number of the current process run
    faults,            \* faults injected so far
    save_every_turn,   \* configuration: checkpoint every continuing move
    eval_output,       \* SpecEval: the output text given to the evaluator
    eval_ret           \* SpecEval: the flags returned for it

VARIABLES
    stream,            \* reader: lines the child has written that the worker has not read yet
    stream_eof,        \* reader: the child's stdout is closed
    reader_q,          \* reader: the lines in the queue (self._q)
    q_open,            \* reader: self._q is a queue (FALSE: the worker has stored None)
    reader_quit,       \* reader: self._quit
    worker,            \* reader: where the worker thread is: check, read, put, ended
    in_hand,           \* reader: the line the worker has read and not yet enqueued
    written,           \* reader: every line the child has written so far
    returned,          \* reader: every line readline has returned so far
    read_result        \* reader: the last call of readline: [called, timeout, value, raised]

VARIABLES
    explored_paths,    \* store: the progress store of the map solver: path key -> statistics
    recorded           \* store: every strand recorded so far, with the solver that recorded it

VARIABLES
    conn,              \* driver: the handles of the connection, the progress of its shutdown
    out_call,          \* driver: the call of _get_output in progress or last ended
    last_call,         \* driver: the last driver operation and what it returned
    script             \* driver: the commands executed, newest last, and how many were taken back

VARIABLES
    disk_file,         \* write: the progress file on disk while a save rewrites it
    clock,             \* timing: the wall clock, the origin of elapsed time, the stored time
    nbm,               \* map solver: find_path_from activations and the USR2 flag
    toy,               \* scenario: the search of the two-room game
    first_run,         \* determinism: what the first of two runs executed and found
    full_history,      \* history: the evaluated contexts in full, one per frame of State History
    legality,          \* oracle: the last call of a legality predicate and what it returned
    shutdown,          \* shutdown: the loop of QUIT: iterations, seconds elapsed, Y commands sent
    trace,             \* the commands executed by this process run, in order
    records_before     \* the number of solution records there were when this run started

reader_vars == <<stream, stream_eof, reader_q, q_open, reader_quit, worker, in_hand,
                 written, returned, read_result>>

driver_vars == <<conn, out_call, last_call, script>>

late_vars == <<shutdown, legality, full_history>>

more_vars == <<disk_file, clock, nbm, toy, first_run, late_vars>>

store_vars == <<explored_paths, recorded, more_vars>>

vars == <<context_history, save_files, terp, stack, pc, progress_data, progress_file,
          counters, solutions, problems, sent, attempted, run, faults, save_every_turn,
          trace, records_before, eval_output, eval_ret, reader_vars, driver_vars,
          store_vars>>

search_vars == <<context_history, save_files, terp, stack, pc, progress_data, progress_file,
                 counters, solutions, problems, sent, attempted, run, faults,
                 save_every_turn, trace, records_before>>

\* ------------------------------------------------------------------------
\* Bounds of the model
\* ------------------------------------------------------------------------
MaxOutLen == 5      \* longest output text given to the evaluator in SpecEval
MaxRuns   == 2      \* number of process runs (1 + number of kill/resume)
MaxFaults == 1      \* number of injected faults in SpecFault
MaxLines  == 3      \* number of lines the child writes in SpecReader
MaxScript == 7      \* number of commands executed in SpecDriver
MaxCalls  == 2      \* number of commands sent in SpecOutput
MaxRecords == 3     \* number of strands recorded in SpecStore
MaxStrand == 10     \* number of steps of the longest strand recorded in SpecStore
MaxPolls  == 25     \* reads of one call of _get_output the model follows in SpecOutput
MaxSaves  == 2      \* number of saves of the progress file in SpecWrite
MaxTime   == 4      \* seconds of wall-clock time followed in SpecClock
MaxSignals == 2     \* number of USR2 signals sent to the map solver in SpecSignal
MaxDepth  == 8      \* longest State History the search of SpecToy is followed to
MaxFrames == 3      \* frames pushed on the start-up frame in SpecSparse

\* ------------------------------------------------------------------------
\* Text helpers (Python str methods)
\* ------------------------------------------------------------------------
LowerCase == <<"a","b","c","d","e","f","g","h","i","j","k","l","m",
               "n","o","p","q","r","s","t","u","v","w","x","y","z">>
UpperCase == <<"A","B","C","D","E","F","G","H","I","J","K","L","M",
               "N","O","P","Q","R","S","T","U","V","W","X","Y","Z">>

LowerChar(ch) ==
    IF \E i \in 1..26 : UpperCase[i] = ch
    THEN LowerCase[CHOOSE i \in 1..26 : UpperCase[i] = ch]
    ELSE ch

UpperChar(ch) ==
    IF \E i \in 1..26 : LowerCase[i] = ch
    THEN UpperCase[CHOOSE i \in 1..26 : LowerCase[i] = ch]
    ELSE ch

lower(s) == [i \in 1..Len(s) |-> LowerChar(s[i])]
upper(s) == [i \in 1..Len(s) |-> UpperChar(s[i])]

startswith(s, p) == Len(p) <= Len(s) /\ SubSeq(s, 1, Len(p)) = p
endswith(s, p)   == Len(p) <= Len(s) /\ SubSeq(s, Len(s) - Len(p) + 1, Len(s)) = p
\* p in s
contains(s, p)   == \E i \in 0..(Len(s) - Len(p)) : SubSeq(s, i + 1, i + Len(p)) = p

Whitespace == {" ", "\n"}

RECURSIVE lstrip(_)
lstrip(s) == IF s # <<>> /\ Head(s) \in Whitespace THEN lstrip(Tail(s)) ELSE s

RECURSIVE rstrip(_)
rstrip(s) == IF s # <<>> /\ s[Len(s)] \in Whitespace
             THEN rstrip(SubSeq(s, 1, Len(s) - 1)) ELSE s

strip(s) == lstrip(rstrip(s))

\* s.strip(string.punctuation), for the punctuation that occurs in commands
Punctuation == {"[", "]", ".", "!", "?", ","}

RECURSIVE lstrip_punct(_)
lstrip_punct(s) == IF s # <<>> /\ Head(s) \in Punctuation THEN lstrip_punct(Tail(s)) ELSE s

RECURSIVE rstrip_punct(_)
rstrip_punct(s) == IF s # <<>> /\ s[Len(s)] \in Punctuation
                   THEN rstrip_punct(SubSeq(s, 1, Len(s) - 1)) ELSE s

strip_punct(s) == lstrip_punct(rstrip_punct(s))

\* s.rstrip('.')
RECURSIVE rstrip_dots(_)
rstrip_dots(s) == IF s # <<>> /\ s[Len(s)] = "."
                  THEN rstrip_dots(SubSeq(s, 1, Len(s) - 1)) ELSE s

\* s.split('\n'): always at least one (possibly empty) line
RECURSIVE split_lines(_)
split_lines(s) ==
    IF \E i \in 1..Len(s) : s[i] = "\n"
    THEN LET i == CHOOSE j \in 1..Len(s) : s[j] = "\n" /\ \A k \in 1..(j-1) : s[k] # "\n"
         IN  <<SubSeq(s, 1, i - 1)>> \o split_lines(SubSeq(s, i + 1, Len(s)))
    ELSE <<s>>

\* sep.join(parts)
RECURSIVE join(_, _)
join(sep, parts) ==
    IF parts = <<>> THEN <<>>
    ELSE IF Len(parts) = 1 THEN parts[1]
    ELSE parts[1] \o sep \o join(sep, Tail(parts))

Range(f) == {f[i] : i \in DOMAIN f}

\* ------------------------------------------------------------------------
\* Configuration data of the evaluator (game-specific text patterns).
\* The phrases are short stand-ins for the lists of the code; they are
\* already stripped and lower-cased, as the code's lists are.
\* ------------------------------------------------------------------------
failure_messages        == { <<"f","!">> }     \* '*** you have failed ***'
success_messages        == { <<"s","!">> }     \* '*** success. final, lasting success. ***'
disambiguation_messages == { <<"!","!">> }     \* 'please give one of the answers above'
mistake_messages        == { <<"m","!">> }     \* "you can't see any such thing", ...

\* rooms, with the 'hideable' attribute of each
rooms == [ r \in { <<"l","i","f","t">>, <<"h","a","l","l">>, <<"l","a","b">> }
             |-> [hideable |-> (r = <<"h","a","l","l">>)] ]

\* ------------------------------------------------------------------------
\* Context Evaluator: the classification part of evaluate_context.
\* Returns the three flags and the problem documented on the way.
\* ------------------------------------------------------------------------
output_lines(output) ==
    LET ls == split_lines(output) IN [i \in 1..Len(ls) |-> strip(ls[i])]

IsMistakeLine(l) ==
    \/ \E m \in disambiguation_messages : startswith(l, m) \/ endswith(l, m)
    \/ \E m \in mistake_messages        : startswith(l, m) \/ endswith(l, m)

\* a variant of the classification that looks for mistake lines first
ClassifySwapped(output) ==
    LET lines        == output_lines(output)
        output_lower == strip(lower(output))
        ll           == [i \in 1..Len(lines) |-> lower(strip(lines[i]))]
        base         == [failed |-> FALSE, success |-> FALSE, mistake |-> FALSE,
                         disambiguation |-> FALSE]
    IN  IF \E i \in 1..Len(ll) : IsMistakeLine(ll[i])
        THEN [base EXCEPT !.mistake = TRUE]
        ELSE IF \E m \in failure_messages : contains(output_lower, m)
        THEN [base EXCEPT !.failed = TRUE]
        ELSE IF \E m \in success_messages : contains(output_lower, m)
        THEN [base EXCEPT !.success = TRUE]
        ELSE base

\* a variant of the classification that goes on after the first match
ClassifyNoReturn(output) ==
    LET lines        == output_lines(output)
        output_lower == strip(lower(output))
        ll           == [i \in 1..Len(lines) |-> lower(strip(lines[i]))]
    IN  [failed  |-> \E m \in failure_messages : contains(output_lower, m),
         success |-> \E m \in success_messages : contains(output_lower, m),
         mistake |-> \E i \in 1..Len(ll) : IsMistakeLine(ll[i]),
         disambiguation |-> FALSE]

Classify(output) ==
    LET lines        == output_lines(output)
        output_lower == strip(lower(output))
        ll           == [i \in 1..Len(lines) |-> lower(strip(lines[i]))]
        base         == [failed |-> FALSE, success |-> FALSE, mistake |-> FALSE,
                         disambiguation |-> FALSE]
    IN  IF \E m \in failure_messages : contains(output_lower, m)
        THEN [base EXCEPT !.failed = TRUE]
        ELSE IF \E m \in success_messages : contains(output_lower, m)
        THEN [base EXCEPT !.success = TRUE]
        ELSE IF \E i \in 1..Len(ll) : IsMistakeLine(ll[i])
        THEN LET first == CHOOSE i \in 1..Len(ll) :
                             IsMistakeLine(ll[i]) /\ \A k \in 1..(i-1) : ~IsMistakeLine(ll[k])
             IN  [base EXCEPT !.mistake = TRUE,
                              !.disambiguation =
                                  \E m \in disambiguation_messages :
                                      startswith(ll[first], m) \/ endswith(ll[first], m)]
        ELSE base

\* lines beginning with '**' that are not the separator are reported
AsteriskLines(output) ==
    LET lines == output_lines(output)
        c     == Classify(output)
    IN  IF c.failed \/ c.success THEN {}
        ELSE { i \in 1..Len(lines) :
                 /\ startswith(lines[i], <<"*","*">>)
                 /\ lines[i] # <<"*","*","*","*","*","*","*">> }

\* the room named by the output, if any: the last line that is a room name
HasRoom(output) ==
    LET ll == [i \in 1..Len(output_lines(output)) |-> lower(output_lines(output)[i])]
    IN  \E i \in 1..Len(ll) : ll[i] \in DOMAIN rooms

DetectRoom(output) ==
    LET ll == [i \in 1..Len(output_lines(output)) |-> lower(output_lines(output)[i])]
        i  == CHOOSE j \in 1..Len(ll) :
                 ll[j] \in DOMAIN rooms /\ \A k \in (j+1)..Len(ll) : ll[k] \notin DOMAIN rooms
    IN  ll[i]


\* ------------------------------------------------------------------------
\* Program constants
\* ------------------------------------------------------------------------
TrackingDepth == 4   \* make_moves: progress is persisted when len(maps) % 4 == 0
AlwaysKept    == 4   \* clean_progress_data: strands with at most 4 periods are kept
inventory_every_turn == TRUE

\* ------------------------------------------------------------------------
\* The command table (a four-entry excerpt of all_commands, in its order)
\* ------------------------------------------------------------------------
GameStart      == <<"[","g","a","m","e"," ","s","t","a","r","t","]">>
CmdGoNorth     == <<"g","o"," ","n","o","r","t","h">>
CmdGoNortheast == <<"g","o"," ","n","o","r","t","h","e","a","s","t">>
CmdWait        == <<"w","a","i","t">>
CmdSave        == <<"s","a","v","e">>
CmdRestore     == <<"r","e","s","t","o","r","e">>
CmdInventory   == <<"i","n","v","e","n","t","o","r","y">>
CmdUndo        == <<"u","n","d","o">>

CmdGetAll      == <<"g","e","t"," ","a","l","l">>

CmdGo          == <<"g","o">>

\* all_commands of the two-room scenario: go and wait, each with the
\* legality predicate the configuration gives it
TwoRoomCommands == <<CmdGo, CmdWait>>

these_commands == IF toy.on THEN TwoRoomCommands
                  ELSE <<CmdGetAll, CmdGoNorth, CmdGoNortheast, CmdWait>>

direction_inverses ==
    (<<"d","o","w","n">> :> <<"u","p">>)
    @@ (<<"e","a","s","t">> :> <<"w","e","s","t">>)
    @@ (<<"i","n">> :> <<"o","u","t">>)
    @@ (<<"n","o","r","t","h">> :> <<"s","o","u","t","h">>)
    @@ (<<"n","o","r","t","h","e","a","s","t">> :> <<"s","o","u","t","h","w","e","s","t">>)
    @@ (<<"n","o","r","t","h","w","e","s","t">> :> <<"s","o","u","t","h","e","a","s","t">>)
    @@ (<<"o","u","t">> :> <<"i","n">>)
    @@ (<<"s","o","u","t","h">> :> <<"n","o","r","t","h">>)
    @@ (<<"s","o","u","t","h","e","a","s","t">> :> <<"n","o","r","t","h","w","e","s","t">>)
    @@ (<<"s","o","u","t","h","w","e","s","t">> :> <<"s","o","u","t","h","e","a","s","t">>)
    @@ (<<"u","p">> :> <<"d","o","w","n">>)

\* ------------------------------------------------------------------------
\* State History: a ChainMap of sparse frames
\* ------------------------------------------------------------------------
EmptyFrame == [k \in {} |-> 0]

Top(h) == h[Len(h)]                                   \* maps[0]

InHistory(h, k) == \E i \in 1..Len(h) : k \in DOMAIN h[i]        \* k in context_history

Lookup(h, k) ==                                       \* context_history[k]
    LET i == CHOOSE j \in 1..Len(h) :
                 k \in DOMAIN h[j] /\ \A m \in (j+1)..Len(h) : k \notin DOMAIN h[m]
    IN  h[i][k]

\* a storage that keeps a field only when the view has no such field
SparseFrameNewKeysOnly(h, context) ==
    LET keep == { k \in DOMAIN context : ~InHistory(h, k) }
    IN  [k \in keep |-> context[k]]

\* _add_context_to_history of the library: what differs from the current
\* view, and the command in any case
SparseFrameWithCommand(h, context) ==
    LET keep == { k \in DOMAIN context :
                    ~InHistory(h, k) \/ Lookup(h, k) # context[k] \/ k = "command" }
    IN  [k \in keep |-> context[k]]

\* _add_context_to_history: keep only what differs from the current view
SparseFrame(h, context) ==
    LET keep == { k \in DOMAIN context : ~InHistory(h, k) \/ Lookup(h, k) # context[k] }
    IN  [k \in keep |-> context[k]]

SetField(frame, k, v) == [x \in (DOMAIN frame) \cup {k} |-> IF x = k THEN v ELSE frame[x]]

\* ChainMap.parents: never fewer than one map
Parents(h) == IF Len(h) <= 1 THEN <<EmptyFrame>> ELSE SubSeq(h, 1, Len(h) - 1)

\* context_history.maps: the frames, the most recent first
RECURSIVE reversed(_)
reversed(l) == IF l = <<>> THEN <<>> ELSE Append(reversed(Tail(l)), Head(l))

maps(h) == reversed(h)

\* a record that keeps the frames in the order of maps
record_as_stored(h) == maps(h)

\* record_solution: the steps written to the solution file
record_solution(h) == reversed(maps(h))

\* list_walkthrough raises KeyError when some frame has no 'command'
WalkthroughRaises(h) == \E i \in 1..Len(h) : "command" \notin DOMAIN h[i]

list_walkthrough(h) == [i \in 1..Len(h) |-> h[i]["command"]]

text_walkthrough(h) == upper(join(<<".", " ">>, list_walkthrough(h))) \o <<".">>

current_room(h) == IF InHistory(h, "room") THEN Lookup(h, "room") ELSE <<"unknown">>

last_command(h) == Lookup(h, "command")

\* ------------------------------------------------------------------------
\* Progress Store
\* ------------------------------------------------------------------------
NoProgress == [k \in {} |-> 0]

is_redundant_strand(which_path, store) ==
    \E key \in DOMAIN store :
        startswith(which_path, rstrip_dots(key)) /\ which_path # key

count_dots(s) == Cardinality({ i \in 1..Len(s) : s[i] = "." })

\* a compaction that removes nothing
clean_nothing(store) == store

\* a compaction that keeps the longest strands: it removes every strand that
\* another strand extends
clean_keeping_descendants(store) ==
    LET keep == { k \in DOMAIN store :
                    ~\E key \in DOMAIN store : startswith(key, rstrip_dots(k)) /\ key # k }
    IN  [k \in keep |-> store[k]]

clean_progress_data(store) ==
    LET keep == { k \in DOMAIN store :
                    count_dots(k) <= AlwaysKept \/ ~is_redundant_strand(k, store) }
    IN  [k \in keep |-> store[k]]

\* create_progress_checkpoint: the table after the insert and the compaction
create_progress_checkpoint(h, store, c) ==
    LET key == text_walkthrough(h)
        ins == [k \in (DOMAIN store) \cup {key} |-> IF k = key THEN c ELSE store[k]]
    IN  clean_progress_data(ins)

InitialCounters == [dead_ends |-> 0, successes |-> 0, moves |-> 0,
                    maximum_walkthrough_length |-> 0]

\* the least element, where the code takes the greatest
Min(S) == CHOOSE x \in S : \A y \in S : x <= y

Max(S) == CHOOSE x \in S : \A y \in S : y <= x

\* a loader that finds nothing and starts from scratch
load_nothing(file) == [data |-> NoProgress, counters |-> InitialCounters]

\* load_progress_data: the table and the counters after a load
load_progress_data(file) ==
    IF file.exists /\ DOMAIN file.data # {}
    THEN [data |-> file.data,
          counters |->
            [dead_ends |-> Max({file.data[k].dead_ends : k \in DOMAIN file.data}),
             successes |-> Max({file.data[k].successes : k \in DOMAIN file.data}),
             moves     |-> Max({file.data[k].moves : k \in DOMAIN file.data}),
             maximum_walkthrough_length |->
                 Max({file.data[k].maximum_walkthrough_length : k \in DOMAIN file.data})]]
    ELSE [data |-> NoProgress, counters |-> InitialCounters]

\* ------------------------------------------------------------------------
\* The child process: a deterministic toy game.
\* The player waits in a lift whose doors open after six turns; the hall is
\* to the north and the lab to the northeast; the eighth move ends the game.
\* ------------------------------------------------------------------------
NewTerp == [trail |-> <<>>, over |-> FALSE]

OutLift == <<"L","i","f","t">>
OutHall == <<"H","a","l","l">>
OutLab  == <<"L","a","b">>
OutFail == <<"F","!">>
OutWin  == <<"S","!">>
OutNo   == <<"M","!">>
OutOver == <<"!","!">>

\* The child of the two-room scenario: the player starts in room A; wait
\* prints 'nothing happens' and leaves the player in room B; go wins from
\* room A and loses from room B.  The winning and the losing text are the
\* configured success and failure phrases.
OutNothing == <<"n","o","t","h","i","n","g"," ","h","a","p","p","e","n","s">>

TwoRooms(t, command) ==
    LET c == lower(strip(command))
    IN  IF t.over THEN [output |-> OutOver, terp |-> t]
        ELSE IF c = CmdWait
             THEN [output |-> OutNothing, terp |-> [t EXCEPT !.trail = Append(@, c)]]
        ELSE IF c = CmdGo
             THEN [output |-> IF t.trail = <<>> THEN OutWin ELSE OutFail,
                   terp   |-> [t EXCEPT !.over = TRUE]]
        ELSE [output |-> OutNo, terp |-> t]

\* the child's answer to one command line: [output, terp]
Game(t, command) ==
    IF toy.on THEN TwoRooms(t, command) ELSE
    LET c    == lower(strip(command))
        turn == Len(t.trail)
        go   == [output |-> OutLift, terp |-> [t EXCEPT !.trail = Append(@, c)]]
    IN  IF t.over THEN [output |-> OutOver, terp |-> t]
        ELSE IF turn < 6 THEN
            IF c = CmdWait THEN go
            ELSE IF c = CmdGoNortheast /\ turn = 0
                 THEN [output |-> OutFail, terp |-> [t EXCEPT !.over = TRUE]]
            ELSE [output |-> OutNo, terp |-> t]
        ELSE IF turn = 6 THEN
            IF c = CmdWait THEN go
            ELSE IF c = CmdGoNorth THEN [go EXCEPT !.output = OutHall]
            ELSE [go EXCEPT !.output = OutLab]
        ELSE
            IF \/ t.trail[turn] = CmdGoNorth /\ c = CmdWait
               \/ t.trail[turn] = CmdGoNortheast /\ c = CmdGoNorth
            THEN [output |-> OutWin,  terp |-> [t EXCEPT !.over = TRUE]]
            ELSE [output |-> OutFail, terp |-> [t EXCEPT !.over = TRUE]]

\* uuid4 names never collide with a name that is in use or still referred to
ReferencedFiles ==
    { context_history[i]["checkpoint"] :
        i \in { j \in 1..Len(context_history) : "checkpoint" \in DOMAIN context_history[j] } }
    \cup { stack[i].checkpoint : i \in 1..Len(stack) }

FreshFile == CHOOSE n \in 1..(Cardinality(DOMAIN save_files \cup ReferencedFiles) + 1) :
                 n \notin (DOMAIN save_files \cup ReferencedFiles)

WriteFile(files, p, content) ==
    [f \in (DOMAIN files) \cup {p} |-> IF f = p THEN content ELSE files[f]]

Unlink(files, p) == [f \in (DOMAIN files) \ {p} |-> files[f]]

Line(text)    == [line |-> text, file |-> 0]
PathLine(p)   == [line |-> <<>>, file |-> p]


\* ------------------------------------------------------------------------
\* Command Legality Oracle
\* ------------------------------------------------------------------------
always_true(h, c) == TRUE

\* as written in the code: the comparison is an equality
not_twice_in_a_row(h, c) ==
    lower(strip(strip_punct(strip(c)))) = lower(strip(strip_punct(strip(last_command(h)))))

no_pacing_unless_hiding(h, c) ==
    IF ~InHistory(h, "command") THEN TRUE
    ELSE LET cc   == strip(lower(c))
             prev == strip(lower(last_command(h)))
             go   == <<"g","o">>
         IN  IF ~startswith(cc, go) THEN TRUE
             ELSE IF ~startswith(prev, go) THEN TRUE
             ELSE LET current_direction  == strip(SubSeq(cc, 3, Len(cc)))
                      previous_direction == strip(SubSeq(prev, 3, Len(prev)))
                  IN  IF direction_inverses[current_direction] = previous_direction
                      THEN rooms[current_room(h)].hideable
                      ELSE TRUE

\* a predicate that drops a frame of the history it looks at
history_after_popping(h, c) == Parents(h)

\* State History after all_commands[c](c) has run.  The predicates read the
\* walkthrough, the room and the last command through the properties of the
\* connection, which build new strings and lists; the one mutation in them,
\* steps.pop(0) in must_do_something_before_exiting_prototype, is applied to
\* a slice copy of the list that list_walkthrough built.
history_after_predicate(h, c) == h

\* all_commands[c](c)
Legal(h, c) ==
    IF toy.on
    THEN IF toy.legal[c] = "always_true" THEN always_true(h, c)
         ELSE not_twice_in_a_row(h, c)
    ELSE
    CASE c = CmdGetAll      -> not_twice_in_a_row(h, c)
      [] c = CmdGoNorth     -> no_pacing_unless_hiding(h, c)
      [] c = CmdGoNortheast -> no_pacing_unless_hiding(h, c)
      [] OTHER              -> always_true(h, c)

\* ------------------------------------------------------------------------
\* evaluate_context: the frame built for one output
\* ------------------------------------------------------------------------
IsContinuing(cls) == ~cls.success /\ ~cls.failed /\ ~cls.mistake

\* an evaluator that takes a checkpoint of every continuing move, whatever
\* the save-every-turn policy says
evaluate_context_always_saving(h_len, output, command, p) ==
    LET cls == Classify(output)
    IN  ("command" :> command) @@ ("failed" :> cls.failed) @@ ("success" :> cls.success)
        @@ ("mistake" :> cls.mistake) @@ ("output" :> output) @@ ("turns" :> 1 + h_len)
        @@ (IF IsContinuing(cls) /\ HasRoom(output)
            THEN ("room" :> DetectRoom(output)) ELSE EmptyFrame)
        @@ (IF IsContinuing(cls) THEN ("checkpoint" :> p) ELSE EmptyFrame)
        @@ (IF IsContinuing(cls) /\ inventory_every_turn
            THEN ("inventory" :> <<>>) ELSE EmptyFrame)

\* the frame returned for OUTPUT; P is the checkpoint path a save would use
evaluate_context(h_len, output, command, p) ==
    LET cls == Classify(output)
    IN  ("command" :> command) @@ ("failed" :> cls.failed) @@ ("success" :> cls.success)
        @@ ("mistake" :> cls.mistake) @@ ("output" :> output) @@ ("turns" :> 1 + h_len)
        @@ (IF IsContinuing(cls) /\ HasRoom(output)
            THEN ("room" :> DetectRoom(output)) ELSE EmptyFrame)
        @@ (IF IsContinuing(cls) /\ save_every_turn
            THEN ("checkpoint" :> p) ELSE EmptyFrame)
        @@ (IF IsContinuing(cls) /\ inventory_every_turn
            THEN ("inventory" :> <<>>) ELSE EmptyFrame)

\* the problems documented while evaluating OUTPUT
EvaluationProblems(output) ==
    (IF Classify(output).disambiguation THEN {"disambiguation"} ELSE {})
    \cup (IF AsteriskLines(output) # {} THEN {"asterisk_line"} ELSE {})

\* the lines sent by the save and the inventory query of a continuing move
\* the same lines with the inventory taken before the checkpoint
FollowUpLinesInventoryFirst(cls, p) ==
    (IF IsContinuing(cls) /\ inventory_every_turn
     THEN <<Line(CmdInventory), Line(CmdUndo)>> ELSE <<>>)
    \o (IF IsContinuing(cls) /\ save_every_turn THEN <<Line(CmdSave), PathLine(p)>> ELSE <<>>)

FollowUpLines(cls, p) ==
    (IF IsContinuing(cls) /\ save_every_turn THEN <<Line(CmdSave), PathLine(p)>> ELSE <<>>)
    \o (IF IsContinuing(cls) /\ inventory_every_turn
        THEN <<Line(CmdInventory), Line(CmdUndo)>> ELSE <<>>)

\* ------------------------------------------------------------------------
\* Line Stream Reader: NonBlockingStreamReader, a worker thread that moves
\* the lines of the child's stdout into a queue, and the owner's reads
\* ------------------------------------------------------------------------
engine_vars == <<search_vars, eval_output, eval_ret, store_vars>>

None == "None"

NoRead == [called |-> FALSE, timeout |-> FALSE, value |-> None, raised |-> FALSE]

\* __init__: an empty queue, the flag down, the worker started
ReaderAtRest ==
    /\ stream = <<>>
    /\ stream_eof = FALSE
    /\ reader_q = <<>>
    /\ q_open = TRUE
    /\ reader_quit = FALSE
    /\ worker = "check"
    /\ in_hand = None
    /\ written = <<>>
    /\ returned = <<>>
    /\ read_result = NoRead

\* the child writes its next line to stdout
ChildWrites ==
    /\ ~stream_eof
    /\ Len(written) < MaxLines
    /\ stream' = Append(stream, Len(written) + 1)
    /\ written' = Append(written, Len(written) + 1)
    /\ UNCHANGED <<stream_eof, reader_q, q_open, reader_quit, worker, in_hand, returned,
                   read_result, engine_vars, driver_vars>>

\* the child's stdout is closed
ChildCloses ==
    /\ ~stream_eof
    /\ stream_eof' = TRUE
    /\ UNCHANGED <<stream, reader_q, q_open, reader_quit, worker, in_hand, written, returned,
                   read_result, engine_vars, driver_vars>>

\* _populateQueue: 'if self._quit: self._q = None; return'
WorkerCheck ==
    /\ worker = "check"
    /\ IF reader_quit
       THEN q_open' = FALSE /\ worker' = "ended"
       ELSE worker' = "read" /\ UNCHANGED q_open
    /\ UNCHANGED <<stream, stream_eof, reader_q, reader_quit, in_hand, written, returned,
                   read_result, engine_vars, driver_vars>>

\* _populateQueue: 'line = stream.readline()' blocks until there is a line
\* or the stream has ended; an empty line ends the thread
WorkerRead ==
    /\ worker = "read"
    /\ IF stream # <<>>
       THEN /\ in_hand' = Head(stream)
            /\ stream' = Tail(stream)
            /\ worker' = "put"
       ELSE /\ stream_eof
            /\ worker' = "ended"
            /\ UNCHANGED <<stream, in_hand>>
    /\ UNCHANGED <<stream_eof, reader_q, q_open, reader_quit, written, returned,
                   read_result, engine_vars, driver_vars>>

\* a queue that hands out the newest line first
put_in_front(q, line) == <<line>> \o q

\* queue.put(line)
put(q, line) == Append(q, line)

\* _populateQueue: 'if line: queue.put(line)'
WorkerPut ==
    /\ worker = "put"
    /\ reader_q' = put(reader_q, in_hand)
    /\ in_hand' = None
    /\ worker' = "check"
    /\ UNCHANGED <<stream, stream_eof, q_open, reader_quit, written, returned,
                   read_result, engine_vars, driver_vars>>

\* readline passes 'block = timeout is not None' to Queue.get
get_block(timeout_given) == timeout_given

\* Queue.get(block, timeout) on an empty queue: it raises Empty at once when
\* it does not block, raises Empty when the timeout has elapsed, and waits
\* for an item when it blocks with no timeout
get_waits_for_item(block, timeout_given) == block /\ ~timeout_given

\* readline(timeout): TIMEOUT_GIVEN tells whether a timeout was passed
readline(timeout_given) ==
    /\ IF ~q_open
       THEN \* self._q is None: AttributeError
            /\ read_result' = [called |-> TRUE, timeout |-> timeout_given, value |-> None,
                               raised |-> TRUE]
            /\ UNCHANGED <<reader_q, returned>>
       ELSE IF reader_q # <<>>
       THEN /\ read_result' = [called |-> TRUE, timeout |-> timeout_given,
                               value |-> Head(reader_q), raised |-> FALSE]
            /\ reader_q' = Tail(reader_q)
            /\ returned' = Append(returned, Head(reader_q))
       ELSE /\ ~get_waits_for_item(get_block(timeout_given), timeout_given)
            /\ read_result' = [called |-> TRUE, timeout |-> timeout_given, value |-> None,
                               raised |-> FALSE]
            /\ UNCHANGED <<reader_q, returned>>
    /\ UNCHANGED <<stream, stream_eof, q_open, reader_quit, worker, in_hand, written,
                   engine_vars, driver_vars>>

\* the owner sets the quit flag
SetQuit ==
    /\ ~reader_quit
    /\ reader_quit' = TRUE
    /\ UNCHANGED <<stream, stream_eof, reader_q, q_open, worker, in_hand, written, returned,
                   read_result, engine_vars, driver_vars>>

\* ------------------------------------------------------------------------
\* The driver at rest: TerpConnection.__init__ has started the child and
\* wrapped its stdout; no call is in progress
\* ------------------------------------------------------------------------
NoCall == [state |-> "idle", calls |-> 0, command |-> <<>>, retry |-> FALSE,
           unwritten |-> <<>>, buffer |-> <<>>, ret |-> <<>>, i |-> 0, reads |-> 0,
           no_data |-> 0]

NoResult == [op |-> "none", text |-> <<>>, ok |-> "-", raised |-> FALSE, closed |-> FALSE]

\* no file on disk, and no save of it in progress
NoFile == [exists |-> FALSE, content |-> <<>>, pending |-> <<>>, open |-> FALSE]

\* no solver has started: time is counted in whole seconds
ClockAtRest == [now |-> 0, solver |-> "none", origin |-> 0, stored |-> {},
                loaded |-> FALSE, at_load |-> 0]

\* the map solver before solve_maze is called
SolverAtRest == [pc |-> "rest", stack |-> <<>>, arg |-> <<>>, flag |-> FALSE,
                 signals |-> 0, successful_paths |-> 0, dead_end_paths |-> 0,
                 consumed |-> {}, saved |-> {}]

\* the two-room scenario is not configured
ToyAtRest == [on |-> FALSE, legal |-> <<>>]

NoFirstRun == [done |-> FALSE, trace |-> <<>>, solutions |-> <<>>]

\* no legality predicate has been called
NotAsked == [called |-> FALSE, c |-> <<>>, ret |-> TRUE]

\* QUIT has not been called
NoShutdown == [iterations |-> 0, elapsed |-> 0, confirmations |-> 0, suppressed |-> FALSE]

\* no strand has been recorded
StoreAtRest ==
    /\ explored_paths = NoProgress
    /\ recorded = {}
    /\ disk_file = NoFile
    /\ clock = ClockAtRest
    /\ nbm = SolverAtRest
    /\ toy = ToyAtRest
    /\ first_run = NoFirstRun
    /\ full_history = <<>>
    /\ legality = NotAsked
    /\ shutdown = NoShutdown

DriverAtRest ==
    /\ conn = [proc |-> TRUE, reader |-> TRUE, stdin_open |-> TRUE, terminated |-> FALSE,
               quitting |-> "no"]
    /\ out_call = NoCall
    /\ last_call = NoResult
    /\ script = [done |-> <<>>, undone |-> 0]

\* ------------------------------------------------------------------------
\* Start of a process run: TerpConnection.__init__, set_up
\* ------------------------------------------------------------------------
OpeningOutput == OutLift

Boot(file, policy) ==
    LET loaded == load_progress_data(file)
    IN  [terp |-> NewTerp,
         context_history |->
              << ("command" :> GameStart) @@ ("failed" :> FALSE) @@ ("success" :> FALSE)
                 @@ ("mistake" :> FALSE) @@ ("output" :> OpeningOutput) @@ ("turns" :> 1)
                 @@ ("room" :> DetectRoom(OpeningOutput))
                 @@ (IF policy THEN ("checkpoint" :> 1) ELSE EmptyFrame)
                 @@ (IF inventory_every_turn THEN ("inventory" :> <<>>) ELSE EmptyFrame) >>,
         save_files    |-> IF policy THEN (1 :> NewTerp) ELSE [f \in {} |-> NewTerp],
         progress_data |-> loaded.data,
         counters      |-> loaded.counters]

NotReturned == [failed |-> FALSE, success |-> FALSE, mistake |-> FALSE,
                disambiguation |-> FALSE, checkpoint |-> FALSE, returned |-> FALSE]

Init ==
    /\ save_every_turn \in BOOLEAN
    /\ progress_file = [exists |-> FALSE, data |-> NoProgress]
    /\ terp = Boot(progress_file, save_every_turn).terp
    /\ context_history = Boot(progress_file, save_every_turn).context_history
    /\ save_files = Boot(progress_file, save_every_turn).save_files
    /\ progress_data = Boot(progress_file, save_every_turn).progress_data
    /\ counters = Boot(progress_file, save_every_turn).counters
    /\ stack = <<>>
    /\ pc = "call"
    /\ sent = <<>>
    /\ solutions = <<>>
    /\ attempted = {}
    /\ trace = <<>>
    /\ records_before = 0
    /\ problems = {}
    /\ run = 1
    /\ faults = 0
    /\ eval_output = <<>>
    /\ eval_ret = NotReturned
    /\ ReaderAtRest
    /\ DriverAtRest
    /\ StoreAtRest


\* ------------------------------------------------------------------------
\* The Search Engine: make_moves, one action per step of an activation
\* ------------------------------------------------------------------------
Active     == stack[Len(stack)]
Pop(st)    == SubSeq(st, 1, Len(st) - 1)
\* an order of the commands that differs from one run to the next, as a
\* shuffle of these_commands would give
NextCommandShuffled ==
    these_commands[IF first_run.done THEN Len(these_commands) + 1 - Active.c_num
                   ELSE Active.c_num]

NextCommand == these_commands[Active.c_num]
InLoop     == pc = "loop" /\ stack # <<>>
HasNext    == InLoop /\ Active.c_num <= Len(these_commands)

Advance(st) == [st EXCEPT ![Len(st)].c_num = @ + 1]

Bump(c, field) == [c EXCEPT ![field] = @ + 1]

\* Entry of make_moves: prune, or make sure of a checkpoint and keep the
\* starting frame.  SAVED tells whether the child wrote the save file.
EnterNode(saved) ==
    /\ pc = "call"
    /\ IF WalkthroughRaises(context_history)
       THEN /\ pc' = "raise"
            /\ sent' = <<>>
            /\ UNCHANGED <<context_history, save_files, stack, problems>>
       ELSE IF is_redundant_strand(text_walkthrough(context_history), progress_data)
       THEN /\ pc' = "return"
            /\ sent' = <<>>
            /\ UNCHANGED <<context_history, save_files, stack, problems>>
       ELSE LET need == "checkpoint" \notin DOMAIN Top(context_history)
                p    == FreshFile
                h1   == IF need
                        THEN [context_history EXCEPT
                                 ![Len(context_history)] = SetField(@, "checkpoint", p)]
                        ELSE context_history
            IN  /\ (~saved) => need
                /\ context_history' = h1
                /\ save_files' = IF need /\ saved THEN WriteFile(save_files, p, terp)
                                 ELSE save_files
                /\ problems' = IF need /\ ~saved THEN problems \cup {"save_failed"}
                               ELSE problems
                /\ sent' = IF need THEN <<Line(CmdSave), PathLine(p)>> ELSE <<>>
                /\ stack' = Append(stack, [checkpoint |-> Lookup(h1, "checkpoint"),
                                           c_num      |-> 1,
                                           base       |-> Len(context_history),
                                           entry_history |-> h1,
                                           entry_terp |-> terp])
                /\ pc' = "loop"
    /\ UNCHANGED <<terp, progress_data, progress_file, counters, solutions, run,
                   save_every_turn, eval_output, eval_ret, attempted,
                   trace, records_before, reader_vars, driver_vars, store_vars>>

\* A command whose legality predicate is false is passed over.
SkipIllegal ==
    /\ HasNext
    /\ ~Legal(context_history, NextCommand)
    /\ context_history' = history_after_predicate(context_history, NextCommand)
    /\ stack' = Advance(stack)
    /\ sent' = <<>>
    /\ UNCHANGED <<save_files, terp, pc, progress_data, progress_file,
                   counters, solutions, problems, run, faults, save_every_turn,
                   eval_output, eval_ret, attempted,
                   trace, records_before, reader_vars, driver_vars, store_vars>>

\* One legal command: execute_command, push of the frame, branch on the
\* outcome.  SAVED tells whether the child wrote the save file.
TryCommand(saved) ==
    /\ HasNext
    /\ Legal(context_history, NextCommand)
    /\ LET c    == NextCommand
           g    == Game(terp, c)
           cls  == Classify(g.output)
           p    == FreshFile
           ctx  == evaluate_context(Len(context_history), g.output, c, p)
           h1   == Append(history_after_predicate(context_history, c),
                          SetField(SparseFrame(context_history, ctx), "command", c))
           saving == IsContinuing(cls) /\ save_every_turn
       IN  /\ (~saved) => saving
           /\ terp' = g.terp
           /\ save_files' = IF saving /\ saved THEN WriteFile(save_files, p, g.terp)
                            ELSE save_files
           /\ sent' = <<Line(c)>> \o FollowUpLines(cls, p)
           /\ context_history' = h1
           /\ attempted' = IF WalkthroughRaises(h1) THEN attempted
                            ELSE attempted \cup {text_walkthrough(h1)}
           /\ IF cls.success
              THEN /\ solutions' = Append(solutions, record_solution(h1))
                   /\ counters' = Bump(counters, "successes")
                   /\ pc' = "finally"
                   /\ problems' = problems \cup EvaluationProblems(g.output)
              ELSE IF cls.mistake \/ cls.failed
              THEN /\ counters' = Bump(counters, "dead_ends")
                   /\ pc' = "finally"
                   /\ problems' = problems \cup EvaluationProblems(g.output)
                   /\ UNCHANGED solutions
              ELSE IF WalkthroughRaises(h1)
              THEN /\ pc' = "finally"
                   /\ problems' = problems \cup EvaluationProblems(g.output)
                                     \cup (IF saved THEN {} ELSE {"save_failed"})
                                     \cup {"general_exception"}
                   /\ UNCHANGED <<solutions, counters>>
              ELSE /\ counters' = [counters EXCEPT !.maximum_walkthrough_length =
                                      IF @ < Len(h1) THEN Len(h1) ELSE @]
                   /\ pc' = "call"
                   /\ problems' = problems \cup EvaluationProblems(g.output)
                                     \cup (IF saved THEN {} ELSE {"save_failed"})
                   /\ UNCHANGED solutions
           /\ trace' = Append(trace, c)
    /\ UNCHANGED <<stack, progress_data, progress_file, run, save_every_turn,
                   eval_output, eval_ret, records_before,
                   reader_vars, driver_vars, store_vars>>

\* The callee has returned: the caller goes on to its finally clause; the
\* return of the top-level call ends the run.
ReturnFromCall ==
    /\ pc = "return"
    /\ pc' = IF stack = <<>> THEN "done" ELSE "finally"
    /\ sent' = <<>>
    /\ UNCHANGED <<context_history, save_files, terp, stack, progress_data, progress_file,
                   counters, solutions, problems, run, faults, save_every_turn,
                   eval_output, eval_ret, attempted,
                   trace, records_before, reader_vars, driver_vars, store_vars>>

\* The finally clause: count the move, restore the child to the starting
\* frame's checkpoint, drop the top frame of the history.
DropRaises(h, files) ==
    "checkpoint" \in DOMAIN Top(h) /\ Top(h)["checkpoint"] \notin DOMAIN files

RestoreAndPop ==
    /\ pc = "finally"
    /\ stack # <<>>
    /\ counters' = Bump(counters, "moves")
    /\ sent' = <<Line(CmdRestore), PathLine(Active.checkpoint)>>
    /\ terp' = IF Active.checkpoint \in DOMAIN save_files
               THEN save_files[Active.checkpoint] ELSE terp
    /\ IF DropRaises(context_history, save_files)
       THEN \* unlink() of a file that is not there: FileNotFoundError leaves make_moves
            /\ stack' = Pop(stack)
            /\ pc' = "raise"
            /\ UNCHANGED <<context_history, save_files>>
       ELSE /\ save_files' = IF "checkpoint" \in DOMAIN Top(context_history)
                             THEN Unlink(save_files, Top(context_history)["checkpoint"])
                             ELSE save_files
            /\ context_history' = Parents(context_history)
            /\ stack' = Advance(stack)
            /\ pc' = "loop"
    /\ UNCHANGED <<progress_data, progress_file, solutions, problems, run, faults,
                   save_every_turn, eval_output, eval_ret, attempted,
                   trace, records_before, reader_vars, driver_vars, store_vars>>

\* End of the loop over the commands: persist progress at tracking depth,
\* return to the caller.
LeaveNode ==
    /\ InLoop
    /\ Active.c_num > Len(these_commands)
    /\ IF Len(context_history) % TrackingDepth = 0 /\ ~WalkthroughRaises(context_history)
       THEN /\ progress_data' = create_progress_checkpoint(context_history, progress_data, counters)
            /\ progress_file' = [exists |-> TRUE, data |-> progress_data']
       ELSE UNCHANGED <<progress_data, progress_file>>
    /\ stack' = Pop(stack)
    /\ pc' = "return"
    /\ sent' = <<>>
    /\ UNCHANGED <<context_history, save_files, terp, counters, solutions, problems, run,
                   faults, save_every_turn, eval_output, eval_ret, attempted,
                   trace, records_before, reader_vars, driver_vars, store_vars>>

\* The process is killed and started again: a new child, the save
\* directory emptied, the persisted progress loaded.
KillAndResume ==
    /\ run < MaxRuns
    /\ pc \notin {"done", "aborted"}
    /\ run' = run + 1
    /\ UNCHANGED <<progress_file, solutions, problems, faults, save_every_turn,
                   eval_output, eval_ret, attempted,
                   reader_vars, driver_vars, store_vars>>
    /\ trace' = <<>>
    /\ records_before' = Len(solutions)
    /\ terp' = Boot(progress_file, save_every_turn).terp
    /\ context_history' = Boot(progress_file, save_every_turn).context_history
    /\ save_files' = Boot(progress_file, save_every_turn).save_files
    /\ progress_data' = Boot(progress_file, save_every_turn).progress_data
    /\ counters' = Boot(progress_file, save_every_turn).counters
    /\ stack' = <<>>
    /\ pc' = "call"
    /\ sent' = <<>>


\* ------------------------------------------------------------------------
\* Faults: a save that writes no file, and errors raised inside an attempt
\* ------------------------------------------------------------------------
EnterNodeSaved ==
    /\ EnterNode(TRUE)
    /\ UNCHANGED faults

EnterNodeSaveFails ==
    /\ faults < MaxFaults
    /\ pc = "call"
    /\ ~WalkthroughRaises(context_history)
    /\ ~is_redundant_strand(text_walkthrough(context_history), progress_data)
    /\ EnterNode(FALSE)
    /\ faults' = faults + 1

TryCommandSaved ==
    /\ TryCommand(TRUE)
    /\ UNCHANGED faults

TryCommandSaveFails ==
    /\ faults < MaxFaults
    /\ TryCommand(FALSE)
    /\ faults' = faults + 1

\* The legality predicate raises: the call is outside the try statement,
\* so the error leaves this activation of make_moves.
PredicateRaises ==
    /\ HasNext
    /\ faults < MaxFaults
    /\ faults' = faults + 1
    /\ stack' = Pop(stack)
    /\ pc' = "raise"
    /\ sent' = <<>>
    /\ UNCHANGED <<context_history, save_files, terp, progress_data, progress_file,
                   counters, solutions, problems, run, save_every_turn,
                   eval_output, eval_ret, attempted,
                   trace, records_before, reader_vars, driver_vars, store_vars>>

\* execute_command raises before the frame is pushed: either before the
\* command is written to the child (late = FALSE), or after the move was
\* made and its checkpoint saved, in the inventory query (late = TRUE).
ExecuteRaises(late) ==
    /\ HasNext
    /\ Legal(context_history, NextCommand)
    /\ faults < MaxFaults
    /\ faults' = faults + 1
    /\ LET c    == NextCommand
           g    == Game(terp, c)
           cls  == Classify(g.output)
           p    == FreshFile
       IN  IF late
           THEN /\ IsContinuing(cls) /\ save_every_turn /\ inventory_every_turn
                /\ terp' = g.terp
                /\ save_files' = WriteFile(save_files, p, g.terp)
                /\ sent' = <<Line(c), Line(CmdSave), PathLine(p), Line(CmdInventory)>>
                /\ trace' = Append(trace, c)
           ELSE /\ sent' = <<>>
                /\ UNCHANGED <<terp, save_files, trace>>
    /\ problems' = problems \cup {"general_exception"}
    /\ pc' = "finally"
    /\ UNCHANGED <<context_history, stack, progress_data, progress_file, counters,
                   solutions, run, save_every_turn, eval_output, eval_ret, attempted,
                   records_before, reader_vars, driver_vars, store_vars>>

\* An error that left an activation: the caller's except clause documents
\* it and goes on to its finally clause; out of the top-level call it ends
\* the run.
CatchException ==
    /\ pc = "raise"
    /\ IF stack = <<>>
       THEN pc' = "aborted" /\ UNCHANGED problems
       ELSE pc' = "finally" /\ problems' = problems \cup {"general_exception"}
    /\ sent' = <<>>
    /\ UNCHANGED <<context_history, save_files, terp, stack, progress_data, progress_file,
                   counters, solutions, run, faults, save_every_turn,
                   eval_output, eval_ret, attempted,
                   trace, records_before, reader_vars, driver_vars, store_vars>>

\* ------------------------------------------------------------------------
\* The search tree of the game: every attempt an exhaustive search makes
\* from history H with the child in state T, with no pruning at all.
\* ------------------------------------------------------------------------
RECURSIVE Exhaustive(_, _)
Exhaustive(h, t) ==
    UNION { LET g   == Game(t, c)
                cls == Classify(g.output)
                h1  == Append(h, SetField(SparseFrame(h, evaluate_context(Len(h), g.output, c, 0)),
                                          "command", c))
            IN  {[path |-> text_walkthrough(h1), success |-> cls.success]}
                \cup (IF IsContinuing(cls) THEN Exhaustive(h1, g.terp) ELSE {})
          : c \in { x \in Range(these_commands) : Legal(h, x) } }

ExhaustiveSearch ==
    Exhaustive(Boot(progress_file, save_every_turn).context_history, NewTerp)

\* walkthroughs of the solution records written so far
FoundSolutions == { text_walkthrough(solutions[i]) : i \in 1..Len(solutions) }

\* the files referred to by the frames of the history
CheckpointsInHistory ==
    { context_history[i]["checkpoint"] :
        i \in { j \in 1..Len(context_history) : "checkpoint" \in DOMAIN context_history[j] } }

\* ------------------------------------------------------------------------
\* Specifications
\* ------------------------------------------------------------------------
\* the search, with kill and resume, the child and the file system behaving
Next ==
    \/ EnterNodeSaved
    \/ SkipIllegal
    \/ TryCommandSaved
    \/ ReturnFromCall
    \/ RestoreAndPop
    \/ LeaveNode
    \/ KillAndResume

Spec == Init /\ [][Next]_vars

\* the search of one run, with failing saves and raised errors
NextFault ==
    \/ EnterNodeSaved
    \/ SkipIllegal
    \/ TryCommandSaved
    \/ ReturnFromCall
    \/ RestoreAndPop
    \/ LeaveNode
    \/ EnterNodeSaveFails
    \/ TryCommandSaveFails
    \/ PredicateRaises
    \/ \E late \in BOOLEAN : ExecuteRaises(late)
    \/ CatchException

SpecFault == Init /\ [][NextFault]_vars

\* the evaluator alone, on every output text up to MaxOutLen characters
Alphabet == {"F", "s", "m", "!", "\n"}

InitEval ==
    /\ save_every_turn = TRUE
    /\ progress_file = [exists |-> FALSE, data |-> NoProgress]
    /\ terp = Boot(progress_file, save_every_turn).terp
    /\ context_history = Boot(progress_file, save_every_turn).context_history
    /\ save_files = Boot(progress_file, save_every_turn).save_files
    /\ progress_data = Boot(progress_file, save_every_turn).progress_data
    /\ counters = Boot(progress_file, save_every_turn).counters
    /\ stack = <<>>
    /\ pc = "call"
    /\ sent = <<>>
    /\ solutions = <<>>
    /\ attempted = {}
    /\ trace = <<>>
    /\ records_before = 0
    /\ problems = {}
    /\ run = 1
    /\ faults = 0
    /\ eval_output \in UNION { [1..n -> Alphabet] : n \in 0..MaxOutLen }
    /\ eval_ret = NotReturned
    /\ ReaderAtRest
    /\ DriverAtRest
    /\ StoreAtRest

Evaluate ==
    /\ ~eval_ret.returned
    /\ LET ret == evaluate_context(Len(context_history), eval_output, CmdWait, FreshFile)
       IN  eval_ret' = [failed         |-> ret["failed"],
                        success        |-> ret["success"],
                        mistake        |-> ret["mistake"],
                        disambiguation |-> "disambiguation" \in EvaluationProblems(eval_output),
                        checkpoint     |-> "checkpoint" \in DOMAIN ret,
                        returned       |-> TRUE]
    /\ UNCHANGED <<search_vars, eval_output, reader_vars, driver_vars, store_vars>>

NextEval == Evaluate

SpecEval == InitEval /\ [][NextEval]_vars

\* the search engine before its first step
EngineAtRest ==
    /\ save_every_turn = TRUE
    /\ progress_file = [exists |-> FALSE, data |-> NoProgress]
    /\ terp = Boot(progress_file, save_every_turn).terp
    /\ context_history = Boot(progress_file, save_every_turn).context_history
    /\ save_files = Boot(progress_file, save_every_turn).save_files
    /\ progress_data = Boot(progress_file, save_every_turn).progress_data
    /\ counters = Boot(progress_file, save_every_turn).counters
    /\ stack = <<>>
    /\ pc = "call"
    /\ sent = <<>>
    /\ solutions = <<>>
    /\ attempted = {}
    /\ trace = <<>>
    /\ records_before = 0
    /\ problems = {}
    /\ run = 1
    /\ faults = 0
    /\ eval_output = <<>>
    /\ eval_ret = NotReturned
    /\ StoreAtRest

\* every component before its first step
AtRest == EngineAtRest /\ ReaderAtRest /\ DriverAtRest

\* the reader alone: the child writes up to MaxLines lines and closes its
\* stdout, the worker thread moves them, the owner reads and sets the flag

NextReader ==
    \/ ChildWrites
    \/ ChildCloses
    \/ WorkerCheck
    \/ WorkerRead
    \/ WorkerPut
    \/ \E timeout_given \in BOOLEAN : readline(timeout_given)
    \/ SetQuit

SpecReader == AtRest /\ [][NextReader]_vars

\* ------------------------------------------------------------------------
\* Process Driver: commands and their output, undo, restore, shutdown
\* ------------------------------------------------------------------------
\* what the driver operations leave alone
driver_frame == <<context_history, save_files, stack, pc, progress_data, progress_file,
                  counters, solutions, attempted, run, faults, save_every_turn,
                  trace, records_before, eval_output, eval_ret, store_vars>>

reader_rest == <<stream, stream_eof, reader_q, q_open, worker, in_hand, written, returned,
                 read_result>>

CmdQuit == <<"q","u","i","t">>
CmdYes  == <<"y">>

\* phrases of the interpreter's answers that the driver looks for
nothing_to_undo == <<"c","a","n","'","t"," ","u","n","d","o">>  \* 'you can't "undo" what hasn't been done'
undone_tag      == <<"u","n","d","o","n","e",".","]">>
failed_tag      == <<"f","a","i","l","e","d">>

OutUndone   == <<"[","U","n","d","o","n","e",".","]">>
OutNoUndo   == <<"C","a","n","'","t"," ","u","n","d","o">>
OutRestored == <<"O","k",".">>
OutNoFile   == <<"F","a","i","l","e","d",".">>

\* the toy story's undo: the last accepted move is taken back
ChildUndo(t) ==
    IF t.over THEN [output |-> OutUndone, terp |-> [t EXCEPT !.over = FALSE]]
    ELSE IF t.trail = <<>> THEN [output |-> OutNoUndo, terp |-> t]
    ELSE [output |-> OutUndone,
          terp |-> [t EXCEPT !.trail = SubSeq(@, 1, Len(@) - 1)]]

\* the child's answer to one command line, undo included
Child(t, command) ==
    IF lower(strip(command)) = CmdUndo THEN ChildUndo(t) ELSE Game(t, command)

\* the room the player of the toy story is in
ChildRoom(t) ==
    IF Len(t.trail) < 7 \/ t.trail[7] = CmdWait THEN DetectRoom(OutLift)
    ELSE IF t.trail[7] = CmdGoNorth THEN DetectRoom(OutHall)
    ELSE DetectRoom(OutLab)

\* s.lstrip('>')
RECURSIVE lstrip_prompt(_)
lstrip_prompt(s) == IF s # <<>> /\ Head(s) = ">" THEN lstrip_prompt(Tail(s)) ELSE s

\* NonBlockingStreamReader.read_text on the LINES waiting in the queue
read_text(lines) ==
    lstrip_prompt(strip(join(<<"\n">>, [k \in 1..Len(lines) |-> rstrip(lines[k])])))

\* the last line of _get_output
clean_output(ret) == lstrip(lstrip_prompt(lstrip(ret)))

Retries == 20

\* a loop that goes on for as long as there is no text
retry_for_ever(i) == TRUE

\* _get_output: 'for i in range(20)'
may_retry(i) == i < Retries

\* _get_output as one step: the child has written TEXT before the last
\* read (HEARD) or has written nothing by then
get_output(text, heard, retry) ==
    LET ret == IF heard THEN read_text(<<text>>) ELSE <<>>
    IN  [text    |-> clean_output(ret),
         no_data |-> ret = <<>> /\ retry]

\* UNDO: what it returns for the text TXT that the undo command produced
UNDO_result(txt) ==
    IF contains(lower(txt), lower(nothing_to_undo)) THEN "True"
    ELSE IF txt = <<>> THEN "False"
    ELSE IF contains(lower(txt), undone_tag) THEN "True"
    ELSE "None"

UNDO_problems(txt) ==
    IF UNDO_result(txt) \in {"False", "None"} THEN {"cannot_undo"} ELSE {}

\* _restore_terp_to_save_file: [terp, sent, text, ok]
restore_terp_to_save_file(t, files, p, heard) ==
    LET there == p \in DOMAIN files
        out   == get_output(IF there THEN OutRestored ELSE OutNoFile, heard, TRUE)
    IN  [terp    |-> IF there THEN files[p] ELSE t,
         sent    |-> <<Line(CmdRestore), PathLine(p)>>,
         text    |-> out.text,
         no_data |-> out.no_data,
         ok      |-> IF contains(lower(out.text), failed_tag) THEN "False" ELSE "True"]

\* 'if self.UNDO:' tests the bound method, which is not called: the truth
\* value of a method object
UNDO_method_is_true == TRUE

\* _undo_if_possible_or_restore: [terp, sent, text, ok]
undo_if_possible_or_restore(t, files, p, heard) ==
    IF UNDO_method_is_true
    THEN [terp |-> t, sent |-> <<>>, text |-> <<>>, no_data |-> FALSE, ok |-> "True"]
    ELSE restore_terp_to_save_file(t, files, p, heard)

\* a shutdown that keeps the handles of the child and of the reader
keep_handles(c) == [c EXCEPT !.quitting = "done"]

\* _definitely_quit: 'self._proc, self._reader = None, None'
drop_handles(c) == [c EXCEPT !.proc = FALSE, !.reader = FALSE, !.quitting = "done"]

Idle == out_call.state = "idle"

Raised(op) == [op |-> op, text |-> <<>>, ok |-> "-", raised |-> TRUE,
               closed |-> conn.quitting = "done"]

\* process_command_and_return_output(c): with the handles gone or the pipe
\* closed the write raises; otherwise the child takes the command and the
\* output is read
ProcessCommand(c, heard) ==
    /\ Idle
    /\ conn.quitting \in {"no", "done"}
    /\ IF ~conn.proc \/ ~conn.stdin_open
       THEN /\ last_call' = Raised("command")
            /\ sent' = <<>>
            /\ UNCHANGED <<terp, problems, script>>
       ELSE /\ script.undone = 0
            /\ Len(script.done) < MaxScript
            /\ LET g   == Child(terp, c)
                   out == get_output(g.output, heard, TRUE)
               IN  /\ terp' = g.terp
                   /\ sent' = <<Line(c)>>
                   /\ problems' = problems \cup (IF out.no_data THEN {"no data"} ELSE {})
                   /\ last_call' = [op |-> "command", text |-> out.text, ok |-> "-",
                                    raised |-> FALSE, closed |-> conn.quitting = "done"]
            /\ script' = [script EXCEPT !.done = Append(@, c)]
    /\ UNCHANGED <<conn, out_call, reader_vars, driver_frame>>

\* _get_output() with no command sent before it
GetOutput ==
    /\ Idle
    /\ conn.quitting \in {"no", "done"}
    /\ IF ~conn.reader
       THEN /\ last_call' = Raised("get_output")
            /\ UNCHANGED problems
       ELSE /\ last_call' = [op |-> "get_output", text |-> <<>>, ok |-> "-",
                             raised |-> FALSE, closed |-> conn.quitting = "done"]
            /\ problems' = problems \cup {"no data"}
    /\ sent' = <<>>
    /\ UNCHANGED <<terp, conn, out_call, script, reader_vars, driver_frame>>

\* _undo_if_possible_or_restore(p), called for the newest command that has
\* not been taken back
UndoOrRestore(p, heard) ==
    /\ Idle
    /\ conn.quitting = "no"
    /\ script.undone < Len(script.done)
    /\ LET r == undo_if_possible_or_restore(terp, save_files, p, heard)
       IN  /\ terp' = r.terp
           /\ sent' = r.sent
           /\ problems' = problems \cup (IF r.no_data THEN {"no data"} ELSE {})
           /\ last_call' = [op |-> "undo_or_restore", text |-> r.text, ok |-> r.ok,
                            raised |-> FALSE, closed |-> FALSE]
    /\ script' = [script EXCEPT !.undone = @ + 1]
    /\ UNCHANGED <<conn, out_call, reader_vars, driver_frame>>

\* the toy story ends when it is told to quit
ChildQuit(t) == [t EXCEPT !.over = TRUE]

\* _definitely_quit, first statement: _clean_up, that is QUIT and its Y
CleanUp ==
    /\ Idle
    /\ conn.quitting = "no"
    /\ conn' = [conn EXCEPT !.quitting = "cleaned"]
    /\ sent' = <<Line(CmdQuit), Line(CmdYes)>>
    /\ terp' = ChildQuit(terp)
    /\ last_call' = [op |-> "quit", text |-> <<>>, ok |-> "-", raised |-> FALSE,
                     closed |-> FALSE]
    /\ UNCHANGED <<problems, out_call, script, reader_vars, driver_frame>>

\* _definitely_quit: 'self._proc.stdin.close()'
CloseStdin ==
    /\ conn.quitting = "cleaned"
    /\ conn' = [conn EXCEPT !.stdin_open = FALSE, !.quitting = "closed"]
    /\ sent' = <<>>
    /\ UNCHANGED <<terp, problems, out_call, last_call, script, reader_vars, driver_frame>>

\* _definitely_quit: 'self._proc.terminate()'
Terminate ==
    /\ conn.quitting = "closed"
    /\ conn' = [conn EXCEPT !.terminated = TRUE, !.quitting = "terminated"]
    /\ UNCHANGED <<terp, sent, problems, out_call, last_call, script, reader_vars,
                   driver_frame>>

\* _definitely_quit: 'self._reader._quit = True'
SetReaderQuit ==
    /\ conn.quitting = "terminated"
    /\ reader_quit' = TRUE
    /\ conn' = [conn EXCEPT !.quitting = "flagged"]
    /\ UNCHANGED <<terp, sent, problems, out_call, last_call, script, reader_rest,
                   driver_frame>>

\* _definitely_quit, last statement
DropHandles ==
    /\ conn.quitting = "flagged"
    /\ conn' = drop_handles(conn)
    /\ UNCHANGED <<terp, sent, problems, out_call, last_call, script, reader_vars,
                   driver_frame>>

\* the driver: commands are executed, then taken back newest first; the
\* connection is shut down at any point
NextDriver ==
    \/ \E c \in {CmdWait, CmdGoNorth}, heard \in BOOLEAN : ProcessCommand(c, heard)
    \/ GetOutput
    \/ \E p \in DOMAIN save_files, heard \in BOOLEAN : UndoOrRestore(p, heard)
    \/ CleanUp
    \/ CloseStdin
    \/ Terminate
    \/ SetReaderQuit
    \/ DropHandles

SpecDriver == AtRest /\ [][NextDriver]_vars

\* ------------------------------------------------------------------------
\* _get_output read by read: the child writes its answer at any moment, or
\* never; every read takes all the lines queued so far
\* ------------------------------------------------------------------------
\* _pass_command_in(c), the first half of process_command_and_return_output
PassCommandIn(c, be_patient, answers) ==
    /\ Idle
    /\ conn.proc
    /\ out_call.unwritten = <<>>
    /\ out_call.calls < MaxCalls
    /\ LET g == Child(terp, c)
       IN  /\ terp' = g.terp
           /\ out_call' = [state |-> "first", calls |-> out_call.calls + 1,
                           command |-> c, retry |-> be_patient,
                           unwritten |-> IF answers THEN <<g.output>> ELSE <<>>,
                           buffer |-> out_call.buffer, ret |-> <<>>, i |-> 0, reads |-> 0,
                           no_data |-> 0]
    /\ sent' = <<Line(c)>>
    /\ UNCHANGED <<problems, conn, last_call, script, reader_vars, driver_frame>>

\* the child's answer reaches the queue of the reader
ChildAnswers ==
    /\ out_call.unwritten # <<>>
    /\ out_call' = [out_call EXCEPT !.buffer = @ \o out_call.unwritten, !.unwritten = <<>>]
    /\ UNCHANGED <<terp, sent, problems, conn, last_call, script, reader_vars, driver_frame>>

\* _get_output: 'ret = self._reader.read_text()' and the test that follows
FirstRead ==
    /\ out_call.state = "first"
    /\ LET ret == read_text(out_call.buffer)
       IN  out_call' = [out_call EXCEPT !.ret = ret, !.buffer = <<>>, !.reads = 1,
                           !.state = IF ret = <<>> /\ out_call.retry THEN "loop" ELSE "end"]
    /\ UNCHANGED <<terp, sent, problems, conn, last_call, script, reader_vars, driver_frame>>

\* _get_output: one pass of the loop, a read and then a break or a sleep
RetryRead ==
    /\ out_call.state = "loop"
    /\ may_retry(out_call.i)
    /\ out_call.reads < MaxPolls
    /\ LET ret == read_text(out_call.buffer)
       IN  out_call' = [out_call EXCEPT !.ret = ret, !.buffer = <<>>, !.reads = @ + 1,
                           !.i = IF ret = <<>> THEN @ + 1 ELSE @,
                           !.state = IF ret = <<>> THEN "loop" ELSE "after"]
    /\ UNCHANGED <<terp, sent, problems, conn, last_call, script, reader_vars, driver_frame>>

\* _get_output: after the loop the problem is documented if there is still
\* no text; the text is returned, and UNDO interprets it
GetOutputReturns ==
    /\ \/ out_call.state \in {"end", "after"}
       \/ out_call.state = "loop" /\ ~may_retry(out_call.i)
    /\ LET gave_up == out_call.state # "end" /\ out_call.ret = <<>>
           txt     == clean_output(out_call.ret)
           undo    == out_call.command = CmdUndo
       IN  /\ out_call' = [out_call EXCEPT !.state = "idle",
                              !.no_data = IF gave_up THEN @ + 1 ELSE @]
           /\ problems' = problems \cup (IF gave_up THEN {"no data"} ELSE {})
                                   \cup (IF undo THEN UNDO_problems(txt) ELSE {})
           /\ last_call' = [op |-> "output", text |-> txt,
                            ok |-> IF undo THEN UNDO_result(txt) ELSE "-",
                            raised |-> FALSE, closed |-> FALSE]
    /\ UNCHANGED <<terp, sent, conn, script, reader_vars, driver_frame>>

NextOutput ==
    \/ \E c \in {CmdWait, CmdGoNorth, CmdUndo}, be_patient \in BOOLEAN, answers \in BOOLEAN :
           PassCommandIn(c, be_patient, answers)
    \/ ChildAnswers
    \/ FirstRead
    \/ RetryRead
    \/ GetOutputReturns

\* the main thread is not held up between the statements of _get_output
SpecOutput ==
    AtRest /\ [][NextOutput]_vars /\ WF_vars(FirstRead \/ RetryRead \/ GetOutputReturns)


\* ------------------------------------------------------------------------
\* Progress Store compaction: strands are recorded one after the other, by
\* the story explorer (progress_data) or by the map solver (explored_paths)
\* ------------------------------------------------------------------------
\* the strands recorded: all steps are A, but for the last, which may be B
Strands(a, b) ==
    { [i \in 1..n |-> IF i = n /\ v THEN b ELSE a] : n \in 1..MaxStrand, v \in BOOLEAN }

\* State History after the commands CMDS
HistoryOf(cmds) ==
    <<("command" :> GameStart)>> \o [i \in 1..Len(cmds) |-> ("command" :> cmds[i])]

\* the story explorer records the strand of the commands CMDS:
\* create_progress_checkpoint inserts, compacts and writes the file
RecordStrand(cmds) ==
    /\ Cardinality(recorded) < MaxRecords
    /\ \A r \in recorded : r.solver = "ATD"
    /\ recorded' = recorded \cup {[solver |-> "ATD", path |-> cmds]}
    /\ progress_data' = create_progress_checkpoint(HistoryOf(cmds), progress_data, counters)
    /\ progress_file' = [exists |-> TRUE, data |-> progress_data']
    /\ UNCHANGED <<context_history, save_files, terp, stack, pc, counters, solutions,
                   problems, sent, attempted, run, faults, save_every_turn, eval_output,
                   eval_ret, explored_paths, trace, records_before, more_vars, reader_vars,
                   driver_vars>>

\* str(current_path): the repr of a list of strings
python_str(path) ==
    <<"[">> \o join(<<",", " ">>, [i \in 1..Len(path) |-> <<"'">> \o path[i] \o <<"'">>])
            \o <<"]">>

\* len(s.split(sep))
RECURSIVE split_count(_, _)
split_count(s, sep) ==
    IF Len(s) < Len(sep) THEN 1
    ELSE IF SubSeq(s, 1, Len(sep)) = sep
         THEN 1 + split_count(SubSeq(s, Len(sep) + 1, Len(s)), sep)
         ELSE split_count(Tail(s), sep)

\* s.rstrip(']')
RECURSIVE rstrip_brackets(_)
rstrip_brackets(s) == IF s # <<>> /\ s[Len(s)] = "]"
                      THEN rstrip_brackets(SubSeq(s, 1, Len(s) - 1)) ELSE s

AlwaysKeptNBM == 8

\* the map solver's is_redundant_strand
NBM_is_redundant_strand(which_path, store) ==
    IF split_count(which_path, <<"'", ",", " ", "'">>) <= AlwaysKeptNBM THEN FALSE
    ELSE \E key \in DOMAIN store :
            startswith(which_path, rstrip_brackets(key)) /\ which_path # key

\* the map solver's clean_progress_data
NBM_clean_progress_data(store) ==
    LET keep == { k \in DOMAIN store : ~NBM_is_redundant_strand(k, store) }
    IN  [k \in keep |-> store[k]]

\* the map solver's save_progress: the table after the insert and the compaction
save_progress(current_path, store) ==
    LET key == python_str(current_path)
        ins == [k \in (DOMAIN store) \cup {key} |-> IF k = key THEN 0 ELSE store[k]]
    IN  NBM_clean_progress_data(ins)

\* the map solver records the path CURRENT_PATH
RecordPath(current_path) ==
    /\ Cardinality(recorded) < MaxRecords
    /\ \A r \in recorded : r.solver = "NBM"
    /\ recorded' = recorded \cup {[solver |-> "NBM", path |-> current_path]}
    /\ explored_paths' = save_progress(current_path, explored_paths)
    /\ UNCHANGED <<search_vars, eval_output, eval_ret, more_vars, reader_vars,
                   driver_vars>>

NextStore ==
    \/ \E cmds \in Strands(<<"n">>, <<"n","e">>) : RecordStrand(cmds)
    \/ \E current_path \in Strands(<<"D","Z">>, <<"T","N">>) : RecordPath(current_path)

SpecStore == AtRest /\ [][NextStore]_vars

\* ------------------------------------------------------------------------
\* Persisting the Progress Store, write by write: both solvers open the
\* progress file for writing, which empties it on disk, and json.dump then
\* writes the table into it piece by piece; the file is closed at the end of
\* the with statement.  The process can be killed between any two writes.
\* ------------------------------------------------------------------------
\* the pieces json.dump writes for TABLE: a brace, the entries, a brace
RECURSIVE dump_entries(_)
dump_entries(table) ==
    IF DOMAIN table = {} THEN <<>>
    ELSE LET k == CHOOSE x \in DOMAIN table : TRUE
         IN  <<[kind |-> "entry", key |-> k, value |-> table[k]]>>
             \o dump_entries([x \in (DOMAIN table) \ {k} |-> table[x]])

json_dump(table) == <<[kind |-> "{"]>> \o dump_entries(table) \o <<[kind |-> "}"]>>

\* json.load succeeds on CONTENT: the text is a whole object
json_parses(content) ==
    /\ Len(content) >= 2
    /\ content[1].kind = "{"
    /\ content[Len(content)].kind = "}"
    /\ \A i \in 2..(Len(content) - 1) : content[i].kind = "entry"

\* the table json.load returns for a CONTENT that parses
json_load(content) ==
    LET at == 2..(Len(content) - 1)
    IN  [k \in { content[i].key : i \in at } |->
            content[CHOOSE i \in at : content[i].key = k].value]

\* open(..., 'w') and bz2.open(..., 'wt') truncate the file at once
truncated(table) ==
    [exists |-> TRUE, content |-> <<>>, pending |-> json_dump(table), open |-> TRUE]

\* create_progress_checkpoint up to the opening of the progress file
OpenProgressFile(cmds) ==
    /\ ~disk_file.open
    /\ Cardinality(recorded) < MaxSaves
    /\ \A r \in recorded : r.solver = "ATD"
    /\ recorded' = recorded \cup {[solver |-> "ATD", path |-> cmds]}
    /\ progress_data' = create_progress_checkpoint(HistoryOf(cmds), progress_data, counters)
    /\ disk_file' = truncated(progress_data')
    /\ UNCHANGED <<context_history, save_files, terp, stack, pc, progress_file, counters,
                   solutions, problems, sent, attempted, run, faults, save_every_turn,
                   trace, records_before, eval_output, eval_ret, explored_paths, clock,
                   nbm, toy,
                   first_run, late_vars, reader_vars, driver_vars>>

\* the map solver's save_progress up to the opening of the progress file
OpenExploredPaths(current_path) ==
    /\ ~disk_file.open
    /\ Cardinality(recorded) < MaxSaves
    /\ \A r \in recorded : r.solver = "NBM"
    /\ recorded' = recorded \cup {[solver |-> "NBM", path |-> current_path]}
    /\ explored_paths' = save_progress(current_path, explored_paths)
    /\ disk_file' = truncated(explored_paths')
    /\ UNCHANGED <<search_vars, eval_output, eval_ret, clock, nbm, toy, first_run, late_vars,
                   reader_vars, driver_vars>>

\* json.dump: the next piece reaches the file
WriteChunk ==
    /\ disk_file.open
    /\ disk_file.pending # <<>>
    /\ disk_file' = [disk_file EXCEPT !.content = Append(@, Head(disk_file.pending)),
                                      !.pending = Tail(@)]
    /\ UNCHANGED <<search_vars, eval_output, eval_ret, explored_paths, recorded, clock,
                   nbm, toy, first_run, late_vars, reader_vars, driver_vars>>

\* the end of the with statement: everything is written, the file is closed
CloseFile ==
    /\ disk_file.open
    /\ disk_file.pending = <<>>
    /\ disk_file' = [disk_file EXCEPT !.open = FALSE]
    /\ UNCHANGED <<search_vars, eval_output, eval_ret, explored_paths, recorded, clock,
                   nbm, toy, first_run, late_vars, reader_vars, driver_vars>>

\* The process is killed, at any point, and started again: what was not
\* written is lost, and the loader reads what is on disk; a file that does
\* not parse makes the loader start from scratch.
KilledAndRestarted ==
    /\ run < MaxRuns
    /\ run' = run + 1
    /\ disk_file' = [disk_file EXCEPT !.pending = <<>>, !.open = FALSE]
    /\ LET readable == disk_file.exists /\ json_parses(disk_file.content)
           on_disk  == IF readable THEN json_load(disk_file.content) ELSE NoProgress
       IN  IF \E r \in recorded : r.solver = "NBM"
           THEN /\ explored_paths' = on_disk
                /\ UNCHANGED <<progress_data, counters>>
           ELSE /\ progress_data' =
                      load_progress_data([exists |-> readable, data |-> on_disk]).data
                /\ counters' =
                      load_progress_data([exists |-> readable, data |-> on_disk]).counters
                /\ UNCHANGED explored_paths
    /\ UNCHANGED <<context_history, save_files, terp, stack, pc, progress_file, solutions,
                   problems, sent, attempted, faults, save_every_turn, trace,
                   records_before, eval_output,
                   eval_ret, recorded, clock, nbm, toy, first_run, late_vars, reader_vars,
                   driver_vars>>

NextWrite ==
    \/ \E cmds \in Strands(<<"n">>, <<"n","e">>) : OpenProgressFile(cmds)
    \/ \E current_path \in Strands(<<"D","Z">>, <<"T","N">>) : OpenExploredPaths(current_path)
    \/ WriteChunk
    \/ CloseFile
    \/ KilledAndRestarted

SpecWrite == AtRest /\ [][NextWrite]_vars

\* ------------------------------------------------------------------------
\* Elapsed-time accounting of the three solvers: the story explorer (ATD),
\* the map solver (NBM) and the Cealdhame solver (ROC).  Each keeps the
\* origin of its elapsed time in a global set when the module is loaded,
\* stores the elapsed time with the progress it saves, and moves the origin
\* when it loads that progress in a later run.
\* ------------------------------------------------------------------------
\* get_total_time, time_so_far, total_time: now minus the origin
total_time(c) == c.now - c.origin

\* the elapsed times in the file after a save: the story explorer and the
\* map solver add an entry, the Cealdhame solver overwrites 'run_time'
stored_after_save(c) ==
    IF c.solver = "ROC" THEN {total_time(c)} ELSE c.stored \cup {total_time(c)}

\* the origin a loader sets from the elapsed times STORED in the file
origin_after_load(solver, now, stored) ==
    IF solver = "ROC"
    THEN now - (0 - Max(stored))    \* timedelta(seconds=-progress_data['run_time'])
    ELSE now - Max(stored)          \* timedelta(seconds=max(... 'time' ...))

\* a solver is started for the first time: the module sets the origin
StartSolver(solver) ==
    /\ clock.solver = "none"
    /\ clock' = [clock EXCEPT !.solver = solver, !.origin = clock.now]
    /\ UNCHANGED <<search_vars, eval_output, eval_ret, explored_paths, recorded,
                   disk_file, nbm, toy, first_run, late_vars, reader_vars, driver_vars>>

\* a second of wall-clock time passes
Tick ==
    /\ clock.now < MaxTime
    /\ clock' = [clock EXCEPT !.now = @ + 1]
    /\ UNCHANGED <<search_vars, eval_output, eval_ret, explored_paths, recorded,
                   disk_file, nbm, toy, first_run, late_vars, reader_vars, driver_vars>>

\* the solver saves its progress, the elapsed time with it
SaveElapsed ==
    /\ clock.solver # "none"
    /\ clock' = [clock EXCEPT !.stored = stored_after_save(clock)]
    /\ UNCHANGED <<search_vars, eval_output, eval_ret, explored_paths, recorded,
                   disk_file, nbm, toy, first_run, late_vars, reader_vars, driver_vars>>

\* the process is started again: the module sets the origin to now, and the
\* loader, when it finds stored progress, moves it
RestartAndLoad ==
    /\ clock.solver # "none"
    /\ run < MaxRuns
    /\ run' = run + 1
    /\ clock' = IF clock.stored = {}
                THEN [clock EXCEPT !.origin = clock.now, !.loaded = FALSE]
                ELSE [clock EXCEPT
                        !.origin  = origin_after_load(clock.solver, clock.now, clock.stored),
                        !.loaded  = TRUE,
                        !.at_load = Max(clock.stored)]
    /\ UNCHANGED <<context_history, save_files, terp, stack, pc, progress_data,
                   progress_file, counters, solutions, problems, sent, attempted, faults,
                   save_every_turn, trace, records_before, eval_output, eval_ret,
                   explored_paths, recorded,
                   disk_file, nbm, toy, first_run, late_vars, reader_vars, driver_vars>>

NextClock ==
    \/ \E solver \in {"ATD", "NBM", "ROC"} : StartSolver(solver)
    \/ Tick
    \/ SaveElapsed
    \/ RestartAndLoad

SpecClock == AtRest /\ [][NextClock]_vars

\* ------------------------------------------------------------------------
\* Two runs of the search, each started from an empty Progress Store
\* against a new child: when the first has ended, what it executed and
\* found is kept, the progress file is removed, and the search is run again.
\* ------------------------------------------------------------------------
SolutionWalkthroughs == [i \in 1..Len(solutions) |-> text_walkthrough(solutions[i])]

NoProgressFile == [exists |-> FALSE, data |-> NoProgress]

RunAgainFromScratch ==
    /\ pc = "done"
    /\ ~first_run.done
    /\ first_run' = [done |-> TRUE, trace |-> trace, solutions |-> SolutionWalkthroughs]
    /\ progress_file' = NoProgressFile
    /\ terp' = Boot(NoProgressFile, save_every_turn).terp
    /\ context_history' = Boot(NoProgressFile, save_every_turn).context_history
    /\ save_files' = Boot(NoProgressFile, save_every_turn).save_files
    /\ progress_data' = Boot(NoProgressFile, save_every_turn).progress_data
    /\ counters' = Boot(NoProgressFile, save_every_turn).counters
    /\ stack' = <<>>
    /\ pc' = "call"
    /\ sent' = <<>>
    /\ trace' = <<>>
    /\ records_before' = 0
    /\ solutions' = <<>>
    /\ attempted' = {}
    /\ problems' = {}
    /\ UNCHANGED <<run, faults, save_every_turn, eval_output, eval_ret, explored_paths,
                   recorded, disk_file, clock, nbm, toy, late_vars, reader_vars,
                   driver_vars>>

NextTwice ==
    \/ EnterNodeSaved
    \/ SkipIllegal
    \/ TryCommandSaved
    \/ ReturnFromCall
    \/ RestoreAndPop
    \/ LeaveNode
    \/ RunAgainFromScratch

SpecTwice == Init /\ [][NextTwice]_vars

\* ------------------------------------------------------------------------
\* The end-to-end scenario: the search engine is configured with the two
\* commands of the two-room game, each with one of the legality predicates
\* of the code, and run to its end.  A search that has a command legal at
\* every node recurses without end; it is followed to MaxDepth frames.
\* ------------------------------------------------------------------------
Predicates == {"always_true", "not_twice_in_a_row"}

ConfigureToy(legal) ==
    /\ ~toy.on
    /\ pc = "call" /\ stack = <<>> /\ trace = <<>> /\ run = 1
    /\ toy' = [on |-> TRUE, legal |-> legal]
    /\ UNCHANGED <<search_vars, eval_output, eval_ret, explored_paths, recorded,
                   disk_file, clock, nbm, first_run, late_vars, reader_vars, driver_vars>>

ToyEnterNode     == toy.on /\ EnterNodeSaved
ToySkipIllegal   == toy.on /\ SkipIllegal
ToyTryCommand    == toy.on /\ Len(context_history) < MaxDepth /\ TryCommandSaved
ToyReturn        == toy.on /\ ReturnFromCall
ToyRestoreAndPop == toy.on /\ RestoreAndPop
ToyLeaveNode     == toy.on /\ LeaveNode

NextToy ==
    \/ \E legal \in [{CmdGo, CmdWait} -> Predicates] : ConfigureToy(legal)
    \/ ToyEnterNode
    \/ ToySkipIllegal
    \/ ToyTryCommand
    \/ ToyReturn
    \/ ToyRestoreAndPop
    \/ ToyLeaveNode

SpecToy == Init /\ [][NextToy]_vars

\* ------------------------------------------------------------------------
\* The map solver's search, find_path_from, and the operator's request to
\* save progress soon (signal USR2).  The map is a five-state stand-in for
\* the table of borders, and the two tracking lengths are scaled to it.  The
\* save that is forced because the last one is more than save_interval ago
\* is left out: the runs followed here are shorter than that.
\* ------------------------------------------------------------------------
GM == <<"G","M">>
SN == <<"S","N">>
ML == <<"M","L">>
GN == <<"G","N">>
SL == <<"S","L">>

borders == (GM :> <<SN>>) @@ (SN :> <<GM, GN, ML>>) @@ (ML :> <<SN, GN>>)
           @@ (GN :> <<SN, ML, SL>>) @@ (SL :> <<GN>>)

path_length_to_track     == 2    \* 12 in the code, for a map of 49 states
minimum_trackable_length == 1    \* 4 in the code

InPath(state, path) == \E i \in 1..Len(path) : path[i] = state

\* [s for s in borders[starting_point] if s not in path_so_far]
possible_steps(path) == SelectSeq(borders[path[Len(path)]], LAMBDA s : ~InPath(s, path))

\* [s for s in borders if s not in path_so_far]
unvisited_states(path) == { s \in DOMAIN borders : ~InPath(s, path) }

\* an ancestral strand of the path was explored in a previous run
explored_before(path, store) ==
    \E i \in minimum_trackable_length..Len(path) :
        python_str(SubSeq(path, 1, i)) \in DOMAIN store

nbm_frame == <<search_vars, eval_output, eval_ret, recorded, disk_file, clock, toy,
               first_run, late_vars, reader_vars, driver_vars>>

\* solve_maze: find_path_from('GM')
solve_maze ==
    /\ nbm.pc = "rest"
    /\ nbm' = [nbm EXCEPT !.pc = "call", !.arg = <<GM>>]
    /\ UNCHANGED <<nbm_frame, explored_paths>>

\* processUSR2: the handler sets the flag (and prints the status)
processUSR2 ==
    /\ nbm.pc \in {"call", "loop", "return"}
    /\ nbm.signals < MaxSignals
    /\ nbm' = [nbm EXCEPT !.flag = TRUE, !.signals = @ + 1]
    /\ UNCHANGED <<nbm_frame, explored_paths>>

\* find_path_from, from its entry to the loop over the possible steps:
\* a path explored before returns at once; the flag is consumed; a path
\* through every state is a solution, and writing it to the file of
\* solutions raises TypeError (write is given two arguments), which no
\* caller catches: the program ends
EnterPath ==
    /\ nbm.pc = "call"
    /\ LET path == nbm.arg
       IN  IF explored_before(path, explored_paths)
           THEN nbm' = [nbm EXCEPT !.pc = "return"]
           ELSE LET after == [nbm EXCEPT
                                !.flag = FALSE,
                                !.consumed = IF nbm.flag THEN @ \cup {path} ELSE @]
                IN  IF unvisited_states(path) = {}
                    THEN nbm' = [after EXCEPT !.successful_paths = @ + 1,
                                              !.stack = <<>>,
                                              !.pc = "raised"]
                    ELSE nbm' = [after EXCEPT
                                   !.stack = Append(@, [path |-> path,
                                                        force_save |-> nbm.flag,
                                                        i |-> 1]),
                                   !.pc = "loop"]
    /\ UNCHANGED <<nbm_frame, explored_paths>>

\* for s in possible_steps: find_path_from(s, path_so_far + [s])
NextStep ==
    /\ nbm.pc = "loop"
    /\ LET top   == nbm.stack[Len(nbm.stack)]
           steps == possible_steps(top.path)
       IN  /\ top.i <= Len(steps)
           /\ nbm' = [nbm EXCEPT !.pc = "call", !.arg = Append(top.path, steps[top.i])]
    /\ UNCHANGED <<nbm_frame, explored_paths>>

\* a call has returned: the caller goes on with its loop
ReturnToCaller ==
    /\ nbm.pc = "return"
    /\ nbm' = IF nbm.stack = <<>> THEN [nbm EXCEPT !.pc = "done"]
              ELSE [nbm EXCEPT !.pc = "loop", !.stack[Len(nbm.stack)].i = @ + 1]
    /\ UNCHANGED <<nbm_frame, explored_paths>>

\* the end of find_path_from: a dead end is counted; progress is saved for
\* a short path not yet in the store, or when a save was forced
FinishPath ==
    /\ nbm.pc = "loop"
    /\ LET top    == nbm.stack[Len(nbm.stack)]
           steps  == possible_steps(top.path)
           saving == \/ /\ Len(top.path) <= path_length_to_track
                        /\ python_str(top.path) \notin DOMAIN explored_paths
                     \/ top.force_save
       IN  /\ top.i > Len(steps)
           /\ nbm' = [nbm EXCEPT
                        !.dead_end_paths = IF steps = <<>> THEN @ + 1 ELSE @,
                        !.saved = IF saving THEN @ \cup {top.path} ELSE @,
                        !.stack = SubSeq(@, 1, Len(@) - 1),
                        !.pc = "return"]
           /\ explored_paths' = IF saving THEN save_progress(top.path, explored_paths)
                                ELSE explored_paths
    /\ UNCHANGED nbm_frame

NextSignal ==
    \/ solve_maze
    \/ processUSR2
    \/ EnterPath
    \/ NextStep
    \/ ReturnToCaller
    \/ FinishPath

SpecSignal == AtRest /\ [][NextSignal]_vars

\* ------------------------------------------------------------------------
\* Properties
\* ------------------------------------------------------------------------

\* C1: in make_moves, whenever control is at a sibling command of a node
\* (or at the end of its loop), State History holds exactly the frames it
\* held on entry to the node, whatever happened during the attempts so far:
\* success, mistake, failure, a recursion, or an error raised at any step.
C1_HistoryAsOnEntry ==
    InLoop => context_history = Active.entry_history

\* C2: no error raised while a single command is tried (in its legality
\* predicate, its execution, the recursion, the restore and pop) leaves the
\* top-level call of make_moves.
C2_NoErrorLeavesTopLevel ==
    pc # "aborted"

\* C3: the search is exhaustive: in a run started from an empty Progress
\* Store, once the top-level call has returned, every attempt of the
\* game's search tree (every legal command at every node reached with a
\* continuing outcome) has been executed.
C3_NoLegalBranchSkipped ==
    (pc = "done" /\ run = 1) => \A a \in ExhaustiveSearch : a.path \in attempted

\* C4: resuming is sound: a strand is in the Progress Store only once every
\* attempt of its subtree has been executed, and a run that was interrupted
\* and resumed has found, when it ends, exactly the solutions one
\* uninterrupted run finds.
SolutionsOfOneRun ==
    { upper(join(<<".", " ">>, <<GameStart, CmdWait, CmdWait, CmdWait, CmdWait, CmdWait,
                                  CmdWait, CmdGoNorth, CmdWait>>)) \o <<".">> }

C4_ResumeSound ==
    /\ \A key \in DOMAIN progress_data :
          \A a \in ExhaustiveSearch :
              startswith(a.path, key \o <<" ">>) => a.path \in attempted
    /\ pc = "done" => FoundSolutions = SolutionsOfOneRun

\* C5: every restore issued after an attempt targets the checkpoint
\* captured on entry to the current node, that file exists at the moment of
\* the restore and holds the child state of the entry, so every sibling
\* command is executed from the same child state as the first one.
C5_RestoreToEntryCheckpoint ==
    /\ (pc = "finally" /\ stack # <<>>) =>
          /\ Active.checkpoint = Lookup(Active.entry_history, "checkpoint")
          /\ Active.checkpoint \in DOMAIN save_files
          /\ save_files[Active.checkpoint] = Active.entry_terp
    /\ InLoop => terp = Active.entry_terp

\* C6: on entry to a node, make_moves returns at once and sends nothing to
\* the child whenever the Progress Store holds the node's own strand key or
\* the strand key of an ancestor path prefix.
StrandRecorded(path, store) ==
    \E key \in DOMAIN store : key = path \/ startswith(path, key \o <<" ">>)

C6_RecordedStrandReturnsAtOnce ==
    [][ ( /\ pc = "call"
          /\ run' = run
          /\ StrandRecorded(text_walkthrough(context_history), progress_data) )
        => (pc' = "return" /\ sent' = <<>>) ]_vars

\* C7: checkpoint-file lifecycle: between command attempts the files in the
\* save directory are exactly the checkpoint files referred to by the
\* frames in State History.
C7_FilesAreThoseOfTheHistory ==
    InLoop => DOMAIN save_files = CheckpointsInHistory

\* C8 (as stated): every frame in State History has a checkpoint reference
\* if and only if it was not classified mistake, failure or success and the
\* save-every-turn policy is enabled.
Terminal(frame) ==
    \E k \in {"failed", "success", "mistake"} : k \in DOMAIN frame /\ frame[k]

Entered(i) ==
    \/ i < Len(context_history)
    \/ \E j \in 1..Len(stack) : stack[j].base = i
    \/ /\ pc \in {"return", "finally", "done"}
       /\ ~is_redundant_strand(text_walkthrough(context_history), progress_data)

HasPhrase(output, messages) ==
    \E m \in messages : contains(strip(lower(output)), m)

HasLineWith(output, messages) ==
    \E i \in 1..Len(split_lines(output)) :
        \E m \in messages :
            \/ startswith(lower(strip(split_lines(output)[i])), m)
            \/ endswith(lower(strip(split_lines(output)[i])), m)

C9_ClassificationPrecedence ==
    eval_ret.returned =>
        /\ HasPhrase(eval_output, failure_messages)
              => (eval_ret.failed /\ ~eval_ret.success /\ ~eval_ret.mistake)
        /\ (~HasPhrase(eval_output, failure_messages) /\ HasPhrase(eval_output, success_messages))
              => (eval_ret.success /\ ~eval_ret.failed /\ ~eval_ret.mistake)
        /\ (~HasPhrase(eval_output, failure_messages) /\ ~HasPhrase(eval_output, success_messages))
              => /\ ~eval_ret.failed
                 /\ ~eval_ret.success
                 /\ eval_ret.mistake
                      <=> HasLineWith(eval_output, mistake_messages \cup disambiguation_messages)

\* an output with a failure phrase and a line that is a mistake phrase,
\* classified failure
C9_Witness ==
    /\ eval_ret.returned
    /\ HasPhrase(eval_output, failure_messages)
    /\ HasLineWith(eval_output, mistake_messages)
    /\ eval_ret.failed

\* C10: in every frame returned by evaluate_context at most one of the
\* flags mistake, failure and success is set.
C10_AtMostOneFlag ==
    eval_ret.returned =>
        Cardinality({ k \in {"failed", "success", "mistake"} : eval_ret[k] }) <= 1

\* an output with a success phrase and a line that ends a disambiguation
\* question, returned with the success flag alone
C10_Witness ==
    /\ eval_ret.returned
    /\ HasPhrase(eval_output, success_messages)
    /\ HasLineWith(eval_output, disambiguation_messages)
    /\ eval_ret.success
    /\ ~eval_ret.mistake

\* C15: readline with a timeout returns nothing when the timeout elapses
\* with no line queued; readline with no timeout blocks until a line is
\* queued and never returns nothing.
C15_NoTimeoutNeverReturnsNothing ==
    (read_result.called /\ ~read_result.raised /\ ~read_result.timeout)
        => read_result.value # None

\* C16: once the owner has set the quit flag the worker enqueues no further
\* line, in every interleaving.
C16_NoLineEnqueuedAfterQuit ==
    [][reader_quit => Len(reader_q') <= Len(reader_q)]_vars

\* the lines the child has written that no read has returned yet, oldest first
Unread == reader_q \o (IF worker = "put" THEN <<in_hand>> ELSE <<>>) \o stream

\* C19: with one producer and one consumer, every line the child writes
\* before the quit flag is set is returned by exactly one read, in the order
\* written: the lines returned are always a prefix of the lines written, and
\* until the flag is set the lines returned followed by the lines still on
\* their way are exactly the lines written.
C19_EveryLineOnceInOrder ==
    /\ Len(returned) <= Len(written)
    /\ returned = SubSeq(written, 1, Len(returned))
    /\ ~reader_quit => returned \o Unread = written

\* two lines returned by two reads while a third is queued
C19_Witness ==
    /\ ~reader_quit
    /\ Len(returned) >= 2
    /\ reader_q # <<>>
    /\ read_result.value = returned[Len(returned)]

\* C13: a checkpoint save that fails is documented and does not stop the
\* run: the frame that refers to it is popped like any other, no error is
\* raised on its account, and the search goes on.
C13_FailedSaveDoesNotStopRun ==
    ("save_failed" \in problems) => pc \notin {"raise", "aborted"}

\* C11: undo-or-restore first sends the child its undo command; only when
\* the answer does not report a successful undo does it send restore and
\* the path of the save file.
C11_UndoCommandSentFirst ==
    last_call.op = "undo_or_restore" => (sent # <<>> /\ sent[1] = Line(CmdUndo))

\* C12: after a sequence of commands executed from the opening state and
\* one undo-or-restore for each of them, the child is in the room it started
\* in.
C12_RoundTripRestoresChild ==
    (script.undone > 0 /\ script.undone = Len(script.done))
        => ChildRoom(terp) = ChildRoom(NewTerp)

\* C17: in a shutdown the reader's quit flag is set before the child's
\* input pipe is closed and before the child is terminated.
C17_QuitFlagBeforeCloseAndTerminate ==
    (~conn.stdin_open \/ conn.terminated) => reader_quit

\* C18: after the shutdown has completed, every attempt to send a command
\* or to read output fails with an error; nothing is written to the child
\* and no text is returned.
C18_NoUseAfterShutdown ==
    last_call.closed =>
        /\ last_call.raised
        /\ last_call.text = <<>>
        /\ sent = <<>>

\* a command sent after the shutdown, which raised
C18_Witness ==
    /\ conn.quitting = "done"
    /\ last_call.closed
    /\ last_call.op = "command"
    /\ last_call.raised

\* C14: every call of _get_output ends; it reads at most once and then at
\* most 20 times more, documents at most one "no data" problem, and a
\* patient call that got no text at all has read 21 times, has documented
\* the problem once and returns the empty text without raising.
C14_GetOutputTerminates ==
    /\ [](out_call.reads <= Retries + 1 /\ out_call.no_data <= 1)
    /\ []((Idle /\ last_call.op = "output" /\ out_call.retry /\ out_call.ret = <<>>)
            => /\ out_call.reads = Retries + 1
               /\ out_call.no_data = 1
               /\ "no data" \in problems
               /\ last_call.text = <<>>
               /\ ~last_call.raised)
    /\ (~Idle) ~> Idle

\* a patient call that has given up after 21 reads
C14_Witness ==
    /\ Idle
    /\ last_call.op = "output"
    /\ out_call.retry
    /\ out_call.reads = Retries + 1
    /\ out_call.no_data = 1
    /\ last_call.text = <<>>

StrictPrefix(a, b) == Len(a) < Len(b) /\ SubSeq(b, 1, Len(a)) = a

StrandKey(cmds) == text_walkthrough(HistoryOf(cmds))

PrunedPathPair ==
    \E ra \in recorded, rb \in recorded :
        /\ ra.solver = "NBM"
        /\ StrictPrefix(ra.path, rb.path)
        /\ Len(ra.path) > AlwaysKeptNBM
        /\ python_str(ra.path) \in DOMAIN explored_paths
        /\ python_str(rb.path) \notin DOMAIN explored_paths

\* the process has just been started again: the persisted table is loaded
\* and nothing has been explored yet
JustResumed == run > 1 /\ pc = "call" /\ stack = <<>> /\ progress_file.exists

\* C21 as stated: loading the persisted table, exploring nothing and saving
\* again (the save of the code is create_progress_checkpoint, which records
\* the strand of the current position) yields a table with the same strand
\* keys and counters as the one loaded.
C21_LoadSaveKeepsTable ==
    JustResumed =>
        create_progress_checkpoint(context_history, progress_data, counters)
            = progress_file.data

\* C21 amended: loading the persisted table and compacting it again, with
\* no strand recorded in between, yields the same strand keys and counters.
C21_LoadCompactKeepsTable ==
    progress_file.exists =>
        clean_progress_data(load_progress_data(progress_file).data) = progress_file.data

\* a resumed run whose loaded table has a strand of more than four periods
C21_Witness ==
    /\ JustResumed
    /\ progress_data = progress_file.data
    /\ \E k \in DOMAIN progress_data : count_dots(k) > AlwaysKept


\* ------------------------------------------------------------------------
\* C22: at every instant, also while a save is in progress, the progress
\* file on disk parses to a complete table; a kill never leaves an
\* unparsable or partial file behind.
\* ------------------------------------------------------------------------
C22_FileOnDiskAlwaysParses ==
    disk_file.exists => json_parses(disk_file.content)


\* ------------------------------------------------------------------------
\* C23: after a successful load each cumulative counter (dead ends,
\* successes, total moves) is the greatest value of that field over the
\* entries of the table, and that is the value the counter had at the last
\* save of the earlier run.
\* ------------------------------------------------------------------------
Cumulative == {"dead_ends", "successes", "moves"}

\* V is the greatest value of FIELD over the entries of TABLE
GreatestOf(table, field, v) ==
    /\ \E k \in DOMAIN table : table[k][field] = v
    /\ \A k \in DOMAIN table : table[k][field] <= v

C23_LoadedCountersAreLastSaved ==
    [][ /\ (progress_file' # progress_file) =>
              \A f \in Cumulative : GreatestOf(progress_file'.data, f, counters[f])
        /\ (run' # run /\ progress_file.exists) =>
              \A f \in Cumulative : GreatestOf(progress_file.data, f, counters'[f]) ]_vars

C23_Witness ==
    /\ JustResumed
    /\ counters.successes > 0
    /\ \E k1, k2 \in DOMAIN progress_file.data :
           progress_file.data[k1].moves < progress_file.data[k2].moves


\* ------------------------------------------------------------------------
\* C24: elapsed-time accounting continues across restarts: with each of the
\* three loaders, the total elapsed time right after a load is at least the
\* largest elapsed time stored in the file, and from there it only grows.
\* ------------------------------------------------------------------------
C24_ElapsedTimeCarriedOver ==
    clock.loaded => total_time(clock) >= clock.at_load


\* ------------------------------------------------------------------------
\* C25: the search is deterministic: two runs started from an empty
\* Progress Store against the same deterministic child execute the same
\* commands in the same order, the commands of a node being tried in the
\* configured order, and find the same solutions.
\* ------------------------------------------------------------------------
IsPrefix(a, b) == Len(a) <= Len(b) /\ SubSeq(b, 1, Len(a)) = a

NoRepeats == toy.on /\ toy.legal[CmdWait] = "not_twice_in_a_row"

C26_TwoRoomScenario ==
    (NoRepeats /\ pc = "done") =>
        /\ SolutionWalkthroughs = << text_walkthrough(HistoryOf(<<CmdGo>>)) >>
        /\ text_walkthrough(HistoryOf(<<CmdWait, CmdGo>>)) \in attempted
        /\ counters.dead_ends = 1


StartUpFrame == Boot(NoProgressFile, save_every_turn).context_history[1]

C28_BottomFrameIsStartUpFrame ==
    /\ context_history # <<>>
    /\ \A k \in DOMAIN StartUpFrame :
           k \in DOMAIN context_history[1] /\ context_history[1][k] = StartUpFrame[k]
    /\ context_history[1]["command"] \notin Range(these_commands)


\* ------------------------------------------------------------------------
\* C29: each move classified success produces exactly one solution record,
\* which lists the frames of the path in chronological order, from the
\* initial frame to the winning move; the success counter equals the number
\* of solution records written in the run.
\* ------------------------------------------------------------------------
Chronological(record) ==
    /\ Len(record) >= 2
    /\ "command" \in DOMAIN record[1] /\ record[1]["command"] = GameStart
    /\ "success" \in DOMAIN record[Len(record)] /\ record[Len(record)]["success"]

RecordsOfThisRun == Len(solutions) - records_before

\* the statement as it stands
C29_CounterIsRecordsOfRun ==
    /\ \A i \in 1..Len(solutions) : Chronological(solutions[i])
    /\ counters.successes = RecordsOfThisRun

\* amended: one chronological record and one count per success; the counter
\* equals the number of records in a run started from an empty Progress
\* Store, and in a resumed run it continues from the loaded value
C29_OneRecordPerSuccess ==
    /\ [](\A i \in 1..Len(solutions) : Chronological(solutions[i]))
    /\ [](run = 1 => counters.successes = RecordsOfThisRun)
    /\ [](counters.successes >= RecordsOfThisRun)
    /\ [][ (run' = run /\ (solutions' # solutions \/ counters'.successes # counters.successes))
            => /\ Top(context_history')["success"]
               /\ solutions' = Append(solutions, context_history')
               /\ counters'.successes = counters.successes + 1 ]_vars

\* a resumed run that loaded a count of successes and recorded a solution
C29_Witness ==
    /\ run > 1
    /\ RecordsOfThisRun > 0
    /\ counters.successes > RecordsOfThisRun


\* ------------------------------------------------------------------------
\* C30: a request to checkpoint progress soon only sets a flag; the flag is
\* consumed at the next search node entered, and progress is persisted when
\* the exploration of that node finishes: no request is consumed without a
\* progress save following it.
\* ------------------------------------------------------------------------
BeingExplored(path) == \E i \in 1..Len(nbm.stack) : nbm.stack[i].path = path

C30_ConsumedRequestIsSaved ==
    \A path \in nbm.consumed : BeingExplored(path) \/ path \in nbm.saved


\* ------------------------------------------------------------------------
\* Graceful shutdown: QUIT and its confirmations, statement by statement
\* ------------------------------------------------------------------------
\* 'while (iterations <= 20) and (... total_seconds() <= 30)'
LastIteration == 20
QuitSeconds == 30

loop_goes_on(q) == q.iterations <= LastIteration /\ q.elapsed <= QuitSeconds

\* an error raised in the loop leaves QUIT by raising
propagate(c) == [c EXCEPT !.quitting = "raised"]

\* 'except BaseException: pass': QUIT returns normally
suppress(c) == [c EXCEPT !.quitting = "cleaned"]

\* QUIT, first statement: the quit request, not waited for; the game asks
\* for a confirmation
QuitRequest ==
    /\ Idle
    /\ conn.quitting = "no"
    /\ conn' = [conn EXCEPT !.quitting = "confirming"]
    /\ sent' = <<Line(CmdQuit)>>
    /\ shutdown' = NoShutdown
    /\ last_call' = [op |-> "quit", text |-> <<>>, ok |-> "-", raised |-> FALSE,
                     closed |-> FALSE]
    /\ UNCHANGED <<terp, problems, out_call, script, reader_vars, context_history,
                   save_files, stack, pc, progress_data, progress_file, counters,
                   solutions, attempted, run, faults, save_every_turn, trace,
                   records_before, eval_output, eval_ret, explored_paths, recorded,
                   disk_file, clock, nbm, toy, first_run, legality, full_history>>

\* what one step of the shutdown leaves alone
quit_frame == <<problems, out_call, last_call, script, reader_vars, context_history,
                save_files, stack, pc, progress_data, progress_file, counters,
                solutions, attempted, run, faults, save_every_turn, trace,
                records_before, eval_output, eval_ret, explored_paths, recorded,
                disk_file, clock, nbm, toy, first_run, legality, full_history>>

\* the wall clock read by the loop condition
Seconds ==
    /\ conn.quitting = "confirming"
    /\ shutdown.elapsed <= QuitSeconds
    /\ shutdown' = [shutdown EXCEPT !.elapsed = @ + 1]
    /\ UNCHANGED <<conn, terp, sent, quit_frame>>

\* one iteration of the loop: Y is written to the child, which leaves or goes
\* on; the write raises when the child has left, and anything else may raise
\* (BaseException covers an interrupt during the sleep)
ConfirmY ==
    /\ conn.quitting = "confirming"
    /\ loop_goes_on(shutdown)
    /\ \/ /\ terp.over
          /\ conn' = suppress(conn)
          /\ shutdown' = [shutdown EXCEPT !.suppressed = TRUE]
          /\ UNCHANGED <<terp, sent>>
       \/ /\ ~terp.over
          /\ \E leaves \in BOOLEAN, interrupted \in BOOLEAN :
                /\ terp' = IF leaves THEN ChildQuit(terp) ELSE terp
                /\ sent' = Append(sent, Line(CmdYes))
                /\ conn' = IF interrupted THEN suppress(conn) ELSE conn
                /\ shutdown' = [shutdown EXCEPT
                                  !.confirmations = @ + 1,
                                  !.iterations = IF interrupted THEN @ ELSE @ + 1,
                                  !.suppressed = interrupted]
    /\ UNCHANGED quit_frame

\* the loop condition is false: QUIT returns
LeaveLoop ==
    /\ conn.quitting = "confirming"
    /\ ~loop_goes_on(shutdown)
    /\ conn' = [conn EXCEPT !.quitting = "cleaned"]
    /\ UNCHANGED <<shutdown, terp, sent, quit_frame>>

\* the statements of _definitely_quit, in program order
ShutdownStep ==
    \/ ConfirmY
    \/ LeaveLoop
    \/ CloseStdin
    \/ Terminate
    \/ SetReaderQuit
    \/ DropHandles

NextQuit ==
    \/ QuitRequest
    \/ Seconds
    \/ ShutdownStep

\* the main thread goes on to its next statement
SpecQuit == AtRest /\ [][NextQuit]_vars /\ WF_vars(ShutdownStep)

\* what QUIT has written to the child: the request, then confirmations only
RequestThenConfirmations ==
    /\ Len(sent) = 1 + shutdown.confirmations
    /\ sent[1] = Line(CmdQuit)
    /\ \A i \in 2..Len(sent) : sent[i] = Line(CmdYes)

\* C31: QUIT writes the quit request and after it at most 21 confirmations
\* and nothing else; once the request is written the shutdown always reaches
\* the state where the input stream is closed and the process terminated,
\* also when an error is raised while confirming
C31_GracefulShutdownTerminates ==
    /\ [](conn.quitting \in {"confirming", "cleaned"} =>
            /\ RequestThenConfirmations
            /\ shutdown.confirmations <= LastIteration + 1)
    /\ (conn.quitting = "confirming" ~> (~conn.stdin_open /\ conn.terminated))

\* an error was suppressed while confirming and the process is terminated
C31_Witness ==
    /\ shutdown.suppressed
    /\ shutdown.confirmations > 0
    /\ ~conn.stdin_open
    /\ conn.terminated


\* ------------------------------------------------------------------------
\* The legality predicates as functions of the command and the history
\* ------------------------------------------------------------------------
\* a command with its case, surrounding whitespace and punctuation removed
Normalised(s) == lower(strip(strip_punct(strip(s))))

\* the commands of the game, also written in lower case, with a full stop
\* and with surrounding blanks
Spellings ==
    UNION { {c, lower(c), c \o <<".">>, <<" ">> \o c \o <<" ">>} : c \in Range(these_commands) }

\* C32: not_twice_in_a_row rejects a command exactly when it is, ignoring
\* case, surrounding whitespace and punctuation, the command executed
\* immediately before, and allows it otherwise
C32_RejectsExactlyTheRepeat ==
    \A c \in Spellings :
        not_twice_in_a_row(context_history, c)
            <=> Normalised(c) # Normalised(last_command(context_history))


\* one call of no_pacing_unless_hiding: the search has made one move from
\* the start of the game (or none) and asks whether a command is legal
Directions == DOMAIN direction_inverses

GoCommand(d) == CmdGo \o <<" ">> \o d

\* the commands the predicate is attached to, and two that are not GO commands
PacingCommands == { GoCommand(d) : d \in Directions } \cup {CmdWait, CmdGetAll}

\* what make_moves leaves alone apart from State History
pacing_frame == <<save_files, terp, stack, pc, progress_data, progress_file, counters,
                  solutions, problems, sent, attempted, run, faults, save_every_turn,
                  trace, records_before, eval_output, eval_ret, reader_vars, driver_vars,
                  explored_paths, recorded, disk_file, clock, nbm, toy, first_run,
                  shutdown, full_history>>

\* a move has been executed and has led to a room: its frame is pushed
Moved(previous_command, room) ==
    /\ Len(context_history) = 1
    /\ ~legality.called
    /\ LET context == ("command" :> previous_command) @@ ("room" :> room)
       IN  context_history' =
               Append(context_history,
                      SetField(SparseFrame(context_history, context), "command",
                               previous_command))
    /\ UNCHANGED <<legality, pacing_frame>>

\* all_commands[c](c) for a command whose predicate is no_pacing_unless_hiding
AskPacing(c) ==
    /\ ~legality.called
    /\ legality' = [called |-> TRUE, c |-> c,
                    ret |-> no_pacing_unless_hiding(context_history, c)]
    /\ UNCHANGED <<context_history, pacing_frame>>

NextPacing ==
    \/ \E previous_command \in PacingCommands, room \in DOMAIN rooms :
            Moved(previous_command, room)
    \/ \E c \in PacingCommands : AskPacing(c)

SpecPacing == AtRest /\ [][NextPacing]_vars

\* the pairs of opposite directions
Opposites ==
    { <<<<"n","o","r","t","h">>, <<"s","o","u","t","h">>>>,
      <<<<"e","a","s","t">>, <<"w","e","s","t">>>>,
      <<<<"n","o","r","t","h","e","a","s","t">>, <<"s","o","u","t","h","w","e","s","t">>>>,
      <<<<"n","o","r","t","h","w","e","s","t">>, <<"s","o","u","t","h","e","a","s","t">>>>,
      <<<<"u","p">>, <<"d","o","w","n">>>>,
      <<<<"i","n">>, <<"o","u","t">>>> }

\* the direction of a GO command
DirectionOf(command) == strip(SubSeq(strip(lower(command)), 3, Len(strip(lower(command)))))

IsGo(command) ==
    /\ startswith(strip(lower(command)), CmdGo)
    /\ DirectionOf(command) \in Directions

\* command takes back the one step that previous made
Reverses(previous, command) ==
    /\ IsGo(previous)
    /\ IsGo(command)
    /\ \/ <<DirectionOf(previous), DirectionOf(command)>> \in Opposites
       \/ <<DirectionOf(command), DirectionOf(previous)>> \in Opposites

\* C33: GO d' issued immediately after GO d, for opposite directions d and
\* d', is legal if and only if the current room is hideable; every GO command
\* that does not reverse the previous GO, and every command that is not a GO
\* command, is legal
C33_OneStepPacing ==
    legality.called =>
        (legality.ret <=>
            (Reverses(last_command(context_history), legality.c)
                => rooms[current_room(context_history)].hideable))


\* ------------------------------------------------------------------------
\* What evaluate_context sends to the child after a move
\* ------------------------------------------------------------------------
\* the move that the step has just executed is classified continuing
MoveContinues ==
    /\ ~Lookup(context_history', "success")
    /\ ~Lookup(context_history', "failed")
    /\ ~Lookup(context_history', "mistake")

\* C34: with save-every-turn and inventory-every-turn enabled, what is sent
\* to the child after a move classified continuing is, in this order and with
\* nothing in between, the save command, the path of the checkpoint, the
\* inventory query and the undo; after a move classified mistake, failure or
\* success nothing is sent
C34_FollowUpCommands ==
    [][ (Len(trace') = Len(trace) + 1 /\ save_every_turn /\ inventory_every_turn)
        => /\ sent' # <<>>
           /\ sent'[1] = Line(trace'[Len(trace')])
           /\ SubSeq(sent', 2, Len(sent')) =
                 IF MoveContinues
                 THEN <<Line(CmdSave), PathLine(Lookup(context_history', "checkpoint")),
                        Line(CmdInventory), Line(CmdUndo)>>
                 ELSE <<>> ]_vars

\* a continuing move has just been followed by its four lines
C34_Witness ==
    /\ Len(sent) = 5
    /\ sent[2] = Line(CmdSave)
    /\ sent[5] = Line(CmdUndo)
    /\ pc = "call"
    /\ Len(context_history) > 1


\* ------------------------------------------------------------------------
\* Pruning at entry and the ancestors of a node
\* ------------------------------------------------------------------------
\* the strand keys of the proper ancestors of the node of history h: its
\* command trail cut after n commands, for every n short of its length
AncestorKeys(h) == { text_walkthrough(SubSeq(h, 1, n)) : n \in 1..(Len(h) - 1) }

\* C35: a node is pruned at entry only if the Progress Store records a
\* strand that is a proper ancestor of the node's path, a prefix of it
\* command by command; a recorded strand never makes a sibling strand, or a
\* descendant of a sibling, be skipped
C35_PrunedOnlyUnderAncestor ==
    [][ (pc = "call" /\ pc' = "return" /\ run' = run)
        => AncestorKeys(context_history) \cap DOMAIN progress_data # {} ]_vars


\* ------------------------------------------------------------------------
\* Sparse storage of State History against storage in full
\* ------------------------------------------------------------------------
\* full_history holds, for every frame pushed on the start-up frame, the
\* evaluated context the frame was made from; the start-up frame is the
\* first frame of an empty chain and is stored in full
FullFrames == <<context_history[1]>> \o full_history

Fields == {"command", "failed", "success", "mistake", "output", "turns", "room",
           "checkpoint", "inventory"}

\* every lookup a caller can make
View(h) == [k \in { f \in Fields : InHistory(h, f) } |-> Lookup(h, k)]

\* the outputs evaluated: two rooms, a mistake, a text that names no room
SparseOutputs == {OutLift, OutHall, OutNo, OutNothing}

SparseContexts(h) ==
    { evaluate_context(Len(h), output, c, FreshFile) :
          output \in SparseOutputs, c \in {CmdWait, CmdGoNorth} }

sparse_frame == <<save_files, terp, stack, pc, progress_data, progress_file, counters,
                  solutions, problems, sent, attempted, run, faults, save_every_turn,
                  trace, records_before, eval_output, eval_ret, reader_vars, driver_vars,
                  explored_paths, recorded, disk_file, clock, nbm, toy, first_run,
                  shutdown, legality>>

\* _add_context_to_history(context), of the library or of the search engine
PushContext(context, library) ==
    /\ Len(full_history) < MaxFrames
    /\ context_history' =
          Append(context_history,
                 IF library THEN SparseFrameWithCommand(context_history, context)
                 ELSE SparseFrame(context_history, context))
    /\ full_history' = Append(full_history, context)
    /\ UNCHANGED sparse_frame

\* make_moves: "context_history['checkpoint'] = save_terp_state()" when the
\* newest frame holds no checkpoint: a write into the newest frame
SaveAtEntry ==
    /\ full_history # <<>>
    /\ "checkpoint" \notin DOMAIN Top(context_history)
    /\ context_history' = [context_history EXCEPT
                              ![Len(context_history)] = SetField(@, "checkpoint", FreshFile)]
    /\ full_history' = [full_history EXCEPT
                           ![Len(full_history)] = SetField(@, "checkpoint", FreshFile)]
    /\ UNCHANGED sparse_frame

\* _drop_history_frame
PopFrame ==
    /\ full_history # <<>>
    /\ context_history' = Parents(context_history)
    /\ full_history' = SubSeq(full_history, 1, Len(full_history) - 1)
    /\ UNCHANGED sparse_frame

NextSparse ==
    \/ \E context \in SparseContexts(context_history), library \in BOOLEAN :
            PushContext(context, library)
    \/ SaveAtEntry
    \/ PopFrame

SpecSparse == AtRest /\ [][NextSparse]_vars

\* C36: after any sequence of pushes and pops a lookup in State History
\* returns what it would return if every frame were stored in full, the value
\* of the field in the most recent frame whose evaluated context contained
\* it; and a push followed by a pop leaves every lookup as it was before the
\* push
C36_SparseStorageInvisible ==
    /\ View(context_history) = View(FullFrames)
    /\ \A context \in SparseContexts(context_history) :
          /\ View(Parents(Append(context_history,
                                 SparseFrame(context_history, context))))
                = View(context_history)
          /\ View(Parents(Append(context_history,
                                 SparseFrameWithCommand(context_history, context))))
                = View(context_history)

\* the newest frame was stored without a field of its context, above a
\* frame that was pushed as well
C36_Witness ==
    /\ Len(full_history) >= 2
    /\ \E k \in DOMAIN Top(full_history) : k \notin DOMAIN Top(context_history)


\* ------------------------------------------------------------------------
\* The views derived from the frames: command trail and transcript
\* ------------------------------------------------------------------------
\* reconstruct_transcript reads frame['command'] and frame['output'] of every
\* frame of maps: KeyError when some frame lacks one of them
TranscriptRaises(h) ==
    \E i \in 1..Len(h) : "command" \notin DOMAIN h[i] \/ "output" \notin DOMAIN h[i]

\* the entries joined by reconstruct_transcript, the oldest first
reconstruct_transcript(h) ==
    [i \in 1..Len(h) |-> <<">", " ">> \o h[i]["command"] \o <<"\n", "\n">> \o h[i]["output"]]

\* C37: in every reachable history every frame carries its own command and
\* its own output, so the command trail and the reconstructed transcript are
\* defined and have one entry per frame, in execution order, also when a
\* command or an output repeats the previous one
C37_DerivedViewsDefined ==
    /\ ~WalkthroughRaises(context_history)
    /\ ~TranscriptRaises(context_history)
    /\ Len(list_walkthrough(context_history)) = Len(context_history)
    /\ Len(reconstruct_transcript(context_history)) = Len(context_history)
    /\ \A i \in 2..Len(context_history) :
          i - 1 <= Len(trace) => list_walkthrough(context_history)[i] \in Range(trace)


\* ------------------------------------------------------------------------
\* Compaction and pruning
\* ------------------------------------------------------------------------
\* the store of create_progress_checkpoint between its insert and its call
\* of clean_progress_data
Inserted(store, key) ==
    [k \in (DOMAIN store) \cup {key} |-> IF k = key THEN counters ELSE store[k]]

\* the strand keys of the strands the story explorer may record or enter
StrandKeys == { StrandKey(cmds) : cmds \in Strands(<<"n">>, <<"n","e">>) }

\* C38: for every strand s, s is redundant with respect to the store before
\* clean_progress_data runs if and only if it is redundant with respect to
\* the store after it; compacting a compacted store changes nothing
C38_CompactionKeepsPruning ==
    \A key \in StrandKeys :
        LET before == Inserted(progress_data, key)
            after  == clean_progress_data(before)
        IN  /\ \A s \in StrandKeys :
                  is_redundant_strand(s, before) <=> is_redundant_strand(s, after)
            /\ clean_progress_data(after) = after
            /\ clean_progress_data(progress_data) = progress_data

\* a recorded strand was removed by a compaction and would be pruned
C38_Witness ==
    \E r \in recorded :
        /\ r.solver = "ATD"
        /\ StrandKey(r.path) \notin DOMAIN progress_data
        /\ is_redundant_strand(StrandKey(r.path), progress_data)


\* ------------------------------------------------------------------------
\* Loading persisted progress at start-up, statement by statement
\* ------------------------------------------------------------------------
\* the fields read from the entries, in the order of the assignments:
\* load_progress_data of the story explorer, load_previous_progress of the
\* map solver
LoadOrder(solver) ==
    IF solver = "ATD"
    THEN <<"time", "dead ends", "successes", "total moves", "maximum walkthrough length">>
    ELSE <<"success", "dead ends", "time">>

EntryFields == {"time", "dead ends", "successes", "success", "total moves",
                "maximum walkthrough length"}

\* max([t[field] for t in table.values()])
FieldMax(table, field) == Max({ table[key][field] : key \in DOMAIN table })

\* the number of assignments made before max() raises: ValueError on an empty
\* table, KeyError at the first field that some entry lacks
assignments_done(order, table) ==
    IF DOMAIN table = {} THEN 0
    ELSE Max({ n \in 0..Len(order) :
                 \A i \in 1..n : \A key \in DOMAIN table : order[i] \in DOMAIN table[key] })

\* a loader that assigns nothing unless every statement of the load succeeds
load_all_or_nothing(solver, file, now) ==
    LET whole == /\ file.exists
                 /\ json_parses(file.content)
                 /\ assignments_done(LoadOrder(solver), json_load(file.content))
                        = Len(LoadOrder(solver))
        table == json_load(file.content)
    IN  [store  |-> IF whole THEN table ELSE NoProgress,
         origin |-> IF whole THEN now - FieldMax(table, "time") ELSE now,
         counts |-> [f \in EntryFields \ {"time"} |->
                        IF whole /\ \E i \in DOMAIN LoadOrder(solver) : LoadOrder(solver)[i] = f
                        THEN FieldMax(table, f) ELSE 0]]

\* the store, the origin of elapsed time and the counters after the try
\* block of the loader, in a process started at time NOW
load_from_disk(solver, file, now) ==
    IF ~file.exists \/ ~json_parses(file.content)
    THEN [store  |-> NoProgress,
          origin |-> now,
          counts |-> [f \in EntryFields \ {"time"} |-> 0]]
    ELSE LET table   == json_load(file.content)
             order   == LoadOrder(solver)
             n       == assignments_done(order, table)
             done(f) == \E i \in 1..n : order[i] = f
         IN  [store  |-> table,
              origin |-> IF done("time") THEN now - FieldMax(table, "time") ELSE now,
              counts |-> [f \in EntryFields \ {"time"} |->
                             IF done(f) THEN FieldMax(table, f) ELSE 0]]

\* the entries a progress file may hold: every field, or every field but one
Entries(v) ==
    { [f \in present |-> v] :
        present \in {EntryFields} \cup { EntryFields \ {f} : f \in EntryFields } }

FileTables ==
    { ("a." :> e) : e \in Entries(1) }
    \cup { ("a." :> e1) @@ ("a. b." :> e2) : e1 \in Entries(1), e2 \in Entries(2) }

\* what the loader may find: no file, a file cut short, a whole file
FilesFound ==
    {NoFile}
    \cup { [exists |-> TRUE, content |-> content, pending |-> <<>>, open |-> FALSE] :
             content \in {<<>>, <<[kind |-> "{"]>>, json_dump(NoProgress)} }
    \cup { [exists |-> TRUE, content |-> json_dump(table), pending |-> <<>>,
            open |-> FALSE] : table \in FileTables }

load_frame == <<context_history, save_files, terp, stack, pc, progress_file, solutions,
                problems, sent, attempted, faults, save_every_turn, trace,
                records_before, eval_output, eval_ret, recorded, toy, first_run,
                late_vars, reader_vars, driver_vars>>

\* the progress file that an earlier run has left
FileLeft(file) ==
    /\ run = 1
    /\ disk_file = NoFile
    /\ file # NoFile
    /\ disk_file' = file
    /\ UNCHANGED <<run, progress_data, counters, explored_paths, clock, nbm, load_frame>>

\* a process of SOLVER starts at time NOW: its globals are initialised, then
\* set_up calls the loader
StartAndLoad(solver, now) ==
    /\ run < MaxRuns
    /\ run' = run + 1
    /\ LET loaded == load_from_disk(solver, disk_file, now)
       IN  /\ clock' = [ClockAtRest EXCEPT !.now = now, !.solver = solver,
                                           !.origin = loaded.origin]
           /\ IF solver = "ATD"
              THEN /\ progress_data' = loaded.store
                   /\ counters' =
                         [dead_ends |-> loaded.counts["dead ends"],
                          successes |-> loaded.counts["successes"],
                          moves     |-> loaded.counts["total moves"],
                          maximum_walkthrough_length |->
                              loaded.counts["maximum walkthrough length"]]
                   /\ explored_paths' = NoProgress
                   /\ nbm' = SolverAtRest
              ELSE /\ explored_paths' = loaded.store
                   /\ nbm' = [SolverAtRest EXCEPT
                                !.successful_paths = loaded.counts["success"],
                                !.dead_end_paths = loaded.counts["dead ends"]]
                   /\ progress_data' = NoProgress
                   /\ counters' = InitialCounters
    /\ UNCHANGED <<disk_file, load_frame>>

NextLoad ==
    \/ \E file \in FilesFound : FileLeft(file)
    \/ \E solver \in {"ATD", "NBM"}, now \in 1..MaxTime : StartAndLoad(solver, now)

SpecLoad == AtRest /\ [][NextLoad]_vars

\* the load of the running process failed at some step: no file, a file
\* that does not parse, an entry that lacks a field the loader reads, or
\* nothing to take a maximum of
LoadFailed ==
    \/ ~disk_file.exists
    \/ ~json_parses(disk_file.content)
    \/ assignments_done(LoadOrder(clock.solver), json_load(disk_file.content))
          < Len(LoadOrder(clock.solver))

\* C39: when the load fails at any step the run starts from scratch: the
\* Progress Store is empty and every cumulative counter and the origin of
\* elapsed time have their initial values; nothing is partly loaded
C39_FailedLoadStartsFromScratch ==
    (run > 1 /\ LoadFailed) =>
        /\ progress_data = NoProgress
        /\ explored_paths = NoProgress
        /\ counters = InitialCounters
        /\ nbm.successful_paths = 0
        /\ nbm.dead_end_paths = 0
        /\ clock.origin = clock.now


\* ------------------------------------------------------------------------
\* A command and the text returned for it
\* ------------------------------------------------------------------------
\* what the child can print in response to the command line c
AnswersTo(c) ==
    IF lower(strip(c)) = CmdUndo THEN {OutUndone, OutNoUndo}
    ELSE {OutLift, OutHall, OutLab, OutFail, OutWin, OutNo, OutOver}

\* C40: the text returned by process_command_and_return_output(c) consists
\* only of output the child produced in response to c: output produced in
\* response to an earlier command is never returned as, or mixed into, the
\* response to a later command, whatever the order in which the child, the
\* reader and the main thread run
C40_ResponseIsOfItsCommand ==
    (Idle /\ last_call.op = "output" /\ out_call.calls > 0) =>
        \/ last_call.text = <<>>
        \/ \E answer \in AnswersTo(out_call.command) :
              last_call.text = clean_output(read_text(<<answer>>))

====
